---- MODULE Spec2Model ----
(***************************************************************************)
(* A model of the qt3tests -> Noir test generator (scripts/generate_tests.py)*)
(* of noir_XPath.                                                           *)
(*                                                                          *)
(* Representation.                                                          *)
(*  - Python's unbounded int is a sign and a decimal magnitude              *)
(*    [neg, mag], mag a sequence of digits without leading zeros, so that   *)
(*    the signed 64-bit bounds and the 64-bit float patterns keep their     *)
(*    true values.                                                          *)
(*  - Text is modelled by its lexical structure: an integer literal is a    *)
(*    sign and a digit string that may carry leading zeros, a wrapped       *)
(*    literal is the wrapper's name and the inner literal.                  *)
(*  - A parsed expression is the token tree the evaluator returns: a        *)
(*    symbol, the children, and the value evaluate() gives for the token.   *)
(***************************************************************************)
EXTENDS Integers, Sequences, FiniteSets, TLC

\* generate_test_package
VARIABLES function_name, tests, position, pc, noir_test, converted_tests, skipped,
          chunk_size, pkg_dir, returned
\* main of generate_tests.py
VARIABLES mpc, parsed_args, git_exit, qt3_dir, output_dir, manifest, test_packages_dir,
          func_i, totals
\* benchmark_all of benchmark_gates.py; proc_result is the outcome of the last
\* call the loop body made for the current operation (compile_result, result
\* or the exception)
VARIABLES bpc, gate_counts, results, index, proc_result, printed, run

package_vars == <<function_name, tests, position, pc, noir_test, converted_tests, skipped,
                  chunk_size, pkg_dir, returned>>
main_vars == <<mpc, parsed_args, git_exit, qt3_dir, output_dir, manifest, test_packages_dir,
               func_i, totals>>
bench_vars == <<bpc, gate_counts, results, index, proc_result, printed, run>>

vars == <<package_vars, main_vars, bench_vars>>

----------------------------------------------------------------------------
(* Unbounded integers as decimal digit sequences (most significant first).  *)

Digit == 0..9

\* the digit string without its leading zeros (one digit is kept)
StripZeros(ds) ==
    IF Len(ds) <= 1 THEN ds
    ELSE LET nz == {k \in 1..Len(ds) : ds[k] # 0}
             first == IF nz = {} THEN Len(ds)
                      ELSE CHOOSE k \in nz : \A j \in nz : k <= j
         IN  SubSeq(ds, first, Len(ds))

IsZeroMag(ds) == StripZeros(ds) = <<0>>

\* int("-007") = -7, int("-0") = 0: the value of a signed digit string.
MkInt(neg, ds) ==
    [neg |-> neg /\ ~IsZeroMag(ds), mag |-> StripZeros(ds)]

\* the one element of a singleton: Only({F(v) : v \in {e}}) is F(e), with e
\* evaluated once
Only(S) == CHOOSE v \in S : TRUE

\* a < b on digit strings of one length
LexLess(a, b) ==
    \E k \in 1..Len(a) : a[k] < b[k] /\ \A j \in 1..(k - 1) : a[j] = b[j]

\* a < b on normalized magnitudes
MagLess(a, b) ==
    IF Len(a) # Len(b) THEN Len(a) < Len(b) ELSE LexLess(a, b)

\* a <= b on values [neg, mag]
IntLeq(a, b) ==
    IF a.neg /\ ~b.neg THEN TRUE
    ELSE IF ~a.neg /\ b.neg THEN FALSE
    ELSE IF a.neg THEN ~MagLess(a.mag, b.mag)
    ELSE ~MagLess(b.mag, a.mag)

IntLess(a, b) == IntLeq(a, b) /\ a # b

IntIsNegative(a) == a.neg

Pow2(n) == 2 ^ n
Pow10(n) == 10 ^ n
Pow5(n) == 5 ^ n

\* the decimal digits of 0 <= n < 2^31
NatDigits(n) ==
    LET L == IF n >= 10 ^ 9 THEN 10
             ELSE CHOOSE l \in 1..9 : n < 10 ^ l /\ (l = 1 \/ n >= 10 ^ (l - 1))
    IN  [k \in 1..L |-> (n \div (10 ^ (L - k))) % 10]

\* A small integer of the model as a Python int.
IntOf(n) == IF n < 0 THEN MkInt(TRUE, NatDigits(-n)) ELSE MkInt(FALSE, NatDigits(n))

RevSeq(s) == [k \in 1..Len(s) |-> s[Len(s) + 1 - k]]

\* the j-th digit from the right, 0 beyond the string
DigitAt(ds, j) == IF j >= 1 /\ j <= Len(ds) THEN ds[Len(ds) + 1 - j] ELSE 0

\* the sum of two magnitudes: position j takes a carry when some lower
\* position overflows and every position between sums to nine
MagAdd(a, b) ==
    LET n == (IF Len(a) > Len(b) THEN Len(a) ELSE Len(b)) + 1
        S(j) == DigitAt(a, j) + DigitAt(b, j)
        C(j) == IF \E l \in 1..(j - 1) :
                      S(l) >= 10 /\ \A m \in (l + 1)..(j - 1) : S(m) = 9
                THEN 1 ELSE 0
    IN  StripZeros([k \in 1..n |-> (S(n + 1 - k) + C(n + 1 - k)) % 10])

\* a magnitude as base-1000 limbs, least significant first, and back
Limbs(a) ==
    [l \in 1..((Len(a) + 2) \div 3) |->
        100 * DigitAt(a, 3 * l) + 10 * DigitAt(a, 3 * l - 1) + DigitAt(a, 3 * l - 2)]

FromLimbs(ls) ==
    IF ls = <<>> THEN <<0>>
    ELSE StripZeros([q \in 1..(3 * Len(ls)) |->
            (ls[Len(ls) - ((q - 1) \div 3)] \div 10 ^ (2 - ((q - 1) % 3))) % 10])

\* limbs times k <= 2 * 10^6 plus carry: the limbs of the product and the
\* carry out of them.  The lower half is multiplied first and hands its carry
\* to the upper half.
RECURSIVE MulLimbs(_, _, _)
MulLimbs(ls, k, carry) ==
    IF ls = <<>> THEN [out |-> <<>>, carry |-> carry]
    ELSE IF Len(ls) = 1
    THEN [out |-> <<(ls[1] * k + carry) % 1000>>, carry |-> (ls[1] * k + carry) \div 1000]
    ELSE Only({Only({[out |-> lo.out \o hi.out, carry |-> hi.carry] :
                        hi \in {MulLimbs(SubSeq(ls, Len(ls) \div 2 + 1, Len(ls)), k, lo.carry)}}) :
                 lo \in {MulLimbs(SubSeq(ls, 1, Len(ls) \div 2), k, carry)}})

\* the limbs of a carry below 10^9
CarryLimbs(carry) == <<carry % 1000, (carry \div 1000) % 1000, carry \div 1000000>>

MagMulSmall(a, k) ==
    Only({FromLimbs(p.out \o CarryLimbs(p.carry)) : p \in {MulLimbs(Limbs(a), k, 0)}})

\* a * 2^n, by halves of n
RECURSIVE MagMulPow2(_, _)
MagMulPow2(a, n) ==
    IF n <= 16 THEN MagMulSmall(a, 2 ^ n)
    ELSE Only({MagMulPow2(b, n - n \div 2) : b \in {MagMulPow2(a, n \div 2)}})

\* the number a digit string of at most nine digits denotes
DigitsNat(ds) ==
    DigitAt(ds, 1) + 10 * DigitAt(ds, 2) + 100 * DigitAt(ds, 3) + 1000 * DigitAt(ds, 4)
      + 10000 * DigitAt(ds, 5) + 100000 * DigitAt(ds, 6) + 1000000 * DigitAt(ds, 7)
      + 10000000 * DigitAt(ds, 8) + 100000000 * DigitAt(ds, 9)

\* number of binary digits of 0 <= n < 2^31
BitLen(n) ==
    IF n = 0 THEN 0
    ELSE CHOOSE l \in 1..31 : n >= 2 ^ (l - 1) /\ (l = 31 \/ n < 2 ^ l)

----------------------------------------------------------------------------
(* Double-precision arithmetic on magnitudes.  A positive double is m * 2^e *)
(* with m a magnitude of at most 53 binary digits.                          *)

Binary(m, e) == [m |-> m, e |-> e]

Two53 == <<9,0,0,7,1,9,9,2,5,4,7,4,0,9,9,2>>
Two54 == <<1,8,0,1,4,3,9,8,5,0,9,4,8,1,9,8,4>>

\* floor(a / 10^n), and whether digits other than 0 are dropped by it
DropDigits(a, n) == IF Len(a) <= n THEN <<0>> ELSE SubSeq(a, 1, Len(a) - n)
LosesDigits(a, n) == \E j \in 1..n : DigitAt(a, j) # 0

\* a followed by n zeros: a * 10^n
AppendZeros(a, n) == a \o [j \in 1..n |-> 0]

\* a * 5^n, by halves of n
RECURSIVE MagMulPow5(_, _)
MagMulPow5(a, n) ==
    IF n <= 8 THEN MagMulSmall(a, 5 ^ n)
    ELSE Only({MagMulPow5(b, n - n \div 2) : b \in {MagMulPow5(a, n \div 2)}})

IsOdd(a) == DigitAt(a, 1) % 2 = 1
Half(a) == DropDigits(MagMulSmall(a, 5), 1)

\* floor(a / 2^n), and whether a is a multiple of 2^n: a * 5^n / 10^n
MagDivPow2(a, n) == DropDigits(MagMulPow5(a, n), n)
DividesPow2(a, n) == ~LosesDigits(MagMulPow5(a, n), n)

\* the number of binary digits of a > 0: 10^(d-1) <= a < 10^d for d = Len(a)
BitLenMag(a) ==
    CHOOSE l \in (3 * (Len(a) - 1) + 1)..((10 * Len(a)) \div 3 + 1) :
        /\ ~MagLess(a, MagMulPow2(<<1>>, l - 1))
        /\ MagLess(a, MagMulPow2(<<1>>, l))

\* N * 2^s / 10^k as a numerator over ScaleDigits(k, s) decimal digits
Scaled(N, s) == IF s >= 0 THEN MagMulPow2(N, s) ELSE MagMulPow5(N, -s)
ScaleDigits(k, s) == IF s >= 0 THEN k ELSE k - s

\* floor(N * 2^s / 10^k) has 54 binary digits
Has54Bits(q) == ~MagLess(q, Two53) /\ MagLess(q, Two54)

\* floor(N * 2^s / 10^k), and whether the division is inexact
Quotient(N, k, s) ==
    Only({[s |-> s, q |-> DropDigits(x, ScaleDigits(k, s)),
           sticky |-> LosesDigits(x, ScaleDigits(k, s))] : x \in {Scaled(N, s)}})

\* the quotient with 2^53 <= N * 2^s / 10^k < 2^54, for N of L digits: N / 10^k
\* lies in [10^(L-k-1), 10^(L-k)), and log2(10) is 3.322 to three places;
\* s stops at 1075, where the doubles are 2^-1074 apart
BinaryPoint(N, k) ==
    CHOOSE c \in {Quotient(N, k, IF s > 1075 THEN 1075 ELSE s) :
                    s \in (51 - (3322 * (Len(N) - k)) \div 1000)..(57 - (3322 * (Len(N) - k)) \div 1000)} :
        IF c.s = 1075 THEN MagLess(c.q, Two54) ELSE Has54Bits(c.q)

\* round-half-even of the quotient q with one digit to spare (sticky: the
\* quotient is not exact), as a multiple of 2^(1 - s)
RoundHalfEven(q, sticky, s) ==
    Only({Binary(IF IsOdd(q) /\ (sticky \/ IsOdd(h)) THEN MagAdd(h, <<1>>) ELSE h, 1 - s) :
            h \in {Half(q)}})

\* N / 10^k rounded to the nearest double, N > 0 without leading zeros
RoundToDouble(N, k) ==
    Only({RoundHalfEven(c.q, c.sticky, c.s) : c \in {BinaryPoint(N, k)}})

\* f * (unit1 * unit2) in double precision: the exact product, rounded; a
\* product of fewer than 54 binary digits is a double as it is
TimesUnits(f, unit1, unit2) ==
    IF f.m = <<0>> THEN f
    ELSE Only({IF f.e <= 0 /\ MagLess(N, Two53) THEN Binary(N, f.e)
               ELSE Only({Binary(p.m, p.e + f.e) : p \in {RoundToDouble(N, 0)}}) :
                 N \in {MagMulSmall(MagMulSmall(f.m, unit1), unit2)}})

\* int(f): the digits before the binary point
IntOfDouble(f) ==
    IF f.e >= 0 THEN MagMulPow2(f.m, f.e) ELSE MagDivPow2(f.m, -f.e)

\* the position of the last digit of a > 0 that is not 0, less one
TrailingZeros(a) ==
    CHOOSE t \in 0..(Len(a) - 1) : DigitAt(a, t + 1) # 0 /\ \A j \in 1..t : DigitAt(a, j) = 0

\* the power of two in 0 < m < 2^54: m * 5^53 ends in as many zeros
TwoExpMag(m) == TrailingZeros(MagMulPow5(m, 53))

----------------------------------------------------------------------------
(* Python values.  k is the value's class; bool is a subclass of int.       *)

None == [k |-> "None"]

IntV(i)   == [k |-> "int", i |-> i]
BoolV(b)  == [k |-> "bool", b |-> b]
\* Decimal: sign, integer digits, fraction digits
DecimalV(neg, ip, fp) == [k |-> "Decimal", neg |-> neg, ip |-> ip, fp |-> fp]
\* float: an IEEE-754 double.  A finite value is (-1)^neg * m * 2^e with m = 0
\* (and e = 0) or m odd.  m is a number when m < 2^21 (class "fin": both
\* widths hold the value exactly) and else a magnitude (class "wide").
FloatV(cls, neg, m, e) == [k |-> "float", cls |-> cls, neg |-> neg, m |-> m, e |-> e]
WideV(neg, m, e) == FloatV("wide", neg, m, e)
StrV(s)   == [k |-> "str", s |-> s]
\* elementpath's DateTime10: the local fields and tzinfo, which is None for a
\* literal without zone and else holds the offset in minutes
Tz(minutes) == [offset |-> minutes]
DateTime10(y, mo, d, h, mi, s, us, tzinfo) ==
    [k |-> "DateTime10", year |-> y, month |-> mo, day |-> d, hour |-> h,
     minute |-> mi, second |-> s, microsecond |-> us, tzinfo |-> tzinfo]
\* the evaluator raised
Raises == [k |-> "raise"]

\* Each program is modelled on its own: while one runs, the variables of the
\* others rest at these values.
PackageIdle ==
    /\ function_name = "" /\ tests = <<>> /\ position = 0 /\ pc = "idle"
    /\ noir_test = None /\ converted_tests = <<>> /\ skipped = 0
    /\ chunk_size = 0 /\ pkg_dir = None /\ returned = None
MainIdle ==
    /\ mpc = "idle" /\ parsed_args = None /\ git_exit = {} /\ qt3_dir = None /\ output_dir = None
    /\ manifest = None /\ test_packages_dir = None /\ func_i = 0 /\ totals = None
BenchIdle ==
    /\ bpc = "idle" /\ gate_counts = None /\ results = None /\ index = 0
    /\ proc_result = None /\ printed = None /\ run = 0

\* isinstance(v, (int, float, Decimal))
IsNumber(v) == v.k \in {"int", "bool", "float", "Decimal"}
\* isinstance(v, int)
IsInt(v) == v.k \in {"int", "bool"}

\* n = OddPart(n) * 2^TwoExp(n), OddPart(n) odd, for 0 < n < 2^31
TwoExp(n) ==
    IF n = 0 THEN 0
    ELSE CHOOSE e \in 0..30 : n % (2 ^ e) = 0 /\ (n \div (2 ^ e)) % 2 = 1

OddPart(n) == n \div (2 ^ TwoExp(n))

\* the finite float n * 2^e, n >= 0, in canonical form
Fin(neg, n, e) ==
    IF n = 0 THEN FloatV("fin", neg, 0, 0)
    ELSE FloatV("fin", neg, OddPart(n), e + TwoExp(n))

\* the double (-1)^neg * m * 2^e for an odd magnitude m
OddDouble(neg, m, e) ==
    IF MagLess(m, <<2,0,9,7,1,5,2>>) THEN FloatV("fin", neg, DigitsNat(m), e)
    ELSE WideV(neg, m, e)

\* the double (-1)^neg * b.m * 2^b.e in canonical form, b.m > 0
Canonical(neg, b) ==
    Only({OddDouble(neg, MagDivPow2(b.m, t), b.e + t) : t \in {TwoExpMag(b.m)}})

\* the double nearest to (-1)^neg * N / 10^k, N > 0 without leading zeros
\* and k >= 0; beyond the largest double it is an infinity, below half the
\* least one a zero.  A value of 10^309 and more (310 digits before the
\* point) is beyond the largest double.
DoubleOf(neg, N, k) ==
    IF Len(N) - k > 309 THEN FloatV("inf", neg, 0, 0)
    ELSE
    Only({IF b.e > 971 \/ (b.e = 971 /\ b.m = Two53) THEN FloatV("inf", neg, 0, 0)
          ELSE IF b.m = <<0>> THEN FloatV("fin", neg, 0, 0)
          ELSE Canonical(neg, b) :
            b \in {RoundToDouble(N, k)}})

\* the double nearest to (-1)^neg * ds * 10^x for the digit string ds; a
\* whole number below 10^6 is a double as it is
DecimalToDouble(neg, ds, x) ==
    IF IsZeroMag(ds) THEN FloatV("fin", neg, 0, 0)
    ELSE IF x >= 0 /\ Len(StripZeros(ds)) + x <= 6
    THEN Fin(neg, DigitsNat(StripZeros(ds)) * Pow10(x), 0)
    ELSE DoubleOf(neg, IF x >= 0 THEN AppendZeros(StripZeros(ds), x) ELSE StripZeros(ds),
                  IF x >= 0 THEN 0 ELSE -x)

\* int(v) for a number v; Raises for NaN and the infinities, and when the
\* evaluation of v raised
PyInt(v) ==
    CASE v.k = "raise"   -> Raises
      [] v.k = "int"     -> v.i
      [] v.k = "bool"    -> IntOf(IF v.b THEN 1 ELSE 0)
      [] v.k = "Decimal" -> MkInt(v.neg, v.ip)
      [] v.k = "float"   ->
            IF v.cls = "wide" THEN MkInt(v.neg, IntOfDouble(v))
            ELSE IF v.cls # "fin" THEN Raises
            ELSE IF v.e >= 0 THEN MkInt(v.neg, MagMulPow2(NatDigits(v.m), v.e))
            ELSE IF -v.e >= 31 THEN IntOf(0)
            ELSE MkInt(v.neg, NatDigits(v.m \div Pow2(-v.e)))

\* 2^128, the least power of two beyond the single-precision range
Int128 == <<3,4,0,2,8,2,3,6,6,9,2,0,9,3,8,4,6,3,4,6,3,3,7,4,6,0,7,4,3,1,7,6,8,2,1,1,4,5,6>>

\* float(v) for a number v: the nearest double; Raises stands for
\* OverflowError (an int beyond the largest double), and for the exception
\* of an evaluation of v that raised
PyFloat(v) ==
    CASE v.k = "raise" -> Raises
      [] v.k = "float" -> v
      [] v.k = "bool"  -> Fin(FALSE, IF v.b THEN 1 ELSE 0, 0)
      [] OTHER         ->
            Only({IF v.k = "int" /\ f.cls = "inf" THEN Raises ELSE f :
                    f \in {DecimalToDouble(IF v.k = "int" THEN v.i.neg ELSE v.neg,
                                           IF v.k = "int" THEN v.i.mag ELSE v.ip \o v.fp,
                                           IF v.k = "int" THEN 0 ELSE -Len(v.fp))}})

----------------------------------------------------------------------------
(* Text.  A str is the sequence of its characters.  A character is a string *)
(* of the model: the character itself when it is printable ASCII other than *)
(* the grave accent or one of \t \n \r \f, and else "U+" followed by the    *)
(* code point in capital hexadecimal digits, four at least: "U+0131" is the *)
(* dotless i, "U+000B" the vertical tab, "U+0060" the grave accent.         *)

\* the characters of a string of the model
Chars(s) == [i \in 1..Len(s) |-> SubSeq(s, i, i)]

\* w[i], and "" where the text has no character
At(w, i) == IF i >= 1 /\ i <= Len(w) THEN w[i] ELSE ""

LowerLetters == Chars("abcdefghijklmnopqrstuvwxyz")
UpperLetters == Chars("ABCDEFGHIJKLMNOPQRSTUVWXYZ")
Digits09 == Chars("0123456789")
LowerChars == {LowerLetters[i] : i \in 1..Len(LowerLetters)}
UpperChars == {UpperLetters[i] : i \in 1..Len(UpperLetters)}
DigitChars == {Digits09[i] : i \in 1..Len(Digits09)}

\* the characters of the code points 32 to 126
Printable ==
    Chars(" !\"#$%&'()*+,-./") \o Digits09 \o Chars(":;<=>?@") \o UpperLetters
      \o Chars("[\\]^_") \o <<"U+0060">> \o LowerLetters \o Chars("{|}~")

IndexIn(seq, c) == CHOOSE i \in 1..Len(seq) : seq[i] = c

HexDigits == Chars("0123456789ABCDEF")

\* the number the first n hexadecimal digits of the character "U+..." denote
RECURSIVE HexVal(_, _)
HexVal(c, n) ==
    IF n = 0 THEN 0
    ELSE 16 * HexVal(c, n - 1) + IndexIn(HexDigits, SubSeq(c, n + 2, n + 2)) - 1

\* ord(c) and chr(n)
Ord(c) ==
    IF Len(c) > 1 THEN HexVal(c, Len(c) - 2)
    ELSE CASE c = "\t" -> 9 [] c = "\n" -> 10 [] c = "\f" -> 12 [] c = "\r" -> 13
           [] OTHER -> 31 + IndexIn(Printable, c)

HexDigit(n, k) == HexDigits[((n \div (16 ^ k)) % 16) + 1]

Chr(n) ==
    IF n >= 32 /\ n <= 126 THEN Printable[n - 31]
    ELSE CASE n = 9 -> "\t" [] n = 10 -> "\n" [] n = 12 -> "\f" [] n = 13 -> "\r"
           [] OTHER ->
                (IF n >= 1048576 THEN "U+" \o HexDigit(n, 5) \o HexDigit(n, 4)
                 ELSE IF n >= 65536 THEN "U+" \o HexDigit(n, 4)
                 ELSE "U+")
                  \o HexDigit(n, 3) \o HexDigit(n, 2) \o HexDigit(n, 1) \o HexDigit(n, 0)

\* str.isspace(): the code points of the white space, as ranges <<first, last>>
SpaceRanges ==
    <<
    <<9, 13>>, <<28, 32>>, <<133, 133>>, <<160, 160>>, <<5760, 5760>>, <<8192, 8202>>,
    <<8232, 8233>>, <<8239, 8239>>, <<8287, 8287>>, <<12288, 12288>>
    >>

\* the zero of each run of ten decimal digits (the characters \d matches and
\* int() and float() read)
DecimalZeros ==
    <<
    48, 1632, 1776, 1984, 2406, 2534, 2662, 2790, 2918, 3046, 3174, 3302, 3430, 3558, 3664, 3792,
    3872, 4160, 4240, 6112, 6160, 6470, 6608, 6784, 6800, 6992, 7088, 7232, 7248, 42528, 43216,
    43264, 43472, 43504, 43600, 44016, 65296, 66720, 68912, 69734, 69872, 69942, 70096, 70384,
    70736, 70864, 71248, 71360, 71472, 71904, 72016, 72784, 73040, 73120, 92768, 92864, 93008,
    120782, 120792, 120802, 120812, 120822, 123200, 123632, 125264, 130032
    >>

\* str.lower() of one character: <<first, last, step, shift>> moves every
\* step-th code point from first to last by shift
LowerRanges ==
    <<
    <<65, 90, 1, 32>>, <<192, 214, 1, 32>>, <<216, 222, 1, 32>>, <<256, 302, 2, 1>>,
    <<306, 310, 2, 1>>, <<313, 327, 2, 1>>, <<330, 374, 2, 1>>, <<376, 376, 1, -121>>,
    <<377, 381, 2, 1>>, <<385, 385, 1, 210>>, <<386, 388, 2, 1>>, <<390, 390, 1, 206>>,
    <<391, 391, 1, 1>>, <<393, 394, 1, 205>>, <<395, 395, 1, 1>>, <<398, 398, 1, 79>>,
    <<399, 399, 1, 202>>, <<400, 400, 1, 203>>, <<401, 401, 1, 1>>, <<403, 403, 1, 205>>,
    <<404, 404, 1, 207>>, <<406, 406, 1, 211>>, <<407, 407, 1, 209>>, <<408, 408, 1, 1>>,
    <<412, 412, 1, 211>>, <<413, 413, 1, 213>>, <<415, 415, 1, 214>>, <<416, 420, 2, 1>>,
    <<422, 422, 1, 218>>, <<423, 423, 1, 1>>, <<425, 425, 1, 218>>, <<428, 428, 1, 1>>,
    <<430, 430, 1, 218>>, <<431, 431, 1, 1>>, <<433, 434, 1, 217>>, <<435, 437, 2, 1>>,
    <<439, 439, 1, 219>>, <<440, 440, 1, 1>>, <<444, 444, 1, 1>>, <<452, 452, 1, 2>>,
    <<453, 453, 1, 1>>, <<455, 455, 1, 2>>, <<456, 456, 1, 1>>, <<458, 458, 1, 2>>,
    <<459, 475, 2, 1>>, <<478, 494, 2, 1>>, <<497, 497, 1, 2>>, <<498, 500, 2, 1>>,
    <<502, 502, 1, -97>>, <<503, 503, 1, -56>>, <<504, 542, 2, 1>>, <<544, 544, 1, -130>>,
    <<546, 562, 2, 1>>, <<570, 570, 1, 10795>>, <<571, 571, 1, 1>>, <<573, 573, 1, -163>>,
    <<574, 574, 1, 10792>>, <<577, 577, 1, 1>>, <<579, 579, 1, -195>>, <<580, 580, 1, 69>>,
    <<581, 581, 1, 71>>, <<582, 590, 2, 1>>, <<880, 882, 2, 1>>, <<886, 886, 1, 1>>,
    <<895, 895, 1, 116>>, <<902, 902, 1, 38>>, <<904, 906, 1, 37>>, <<908, 908, 1, 64>>,
    <<910, 911, 1, 63>>, <<913, 929, 1, 32>>, <<932, 939, 1, 32>>, <<975, 975, 1, 8>>,
    <<984, 1006, 2, 1>>, <<1012, 1012, 1, -60>>, <<1015, 1015, 1, 1>>, <<1017, 1017, 1, -7>>,
    <<1018, 1018, 1, 1>>, <<1021, 1023, 1, -130>>, <<1024, 1039, 1, 80>>, <<1040, 1071, 1, 32>>,
    <<1120, 1152, 2, 1>>, <<1162, 1214, 2, 1>>, <<1216, 1216, 1, 15>>, <<1217, 1229, 2, 1>>,
    <<1232, 1326, 2, 1>>, <<1329, 1366, 1, 48>>, <<4256, 4293, 1, 7264>>, <<4295, 4295, 1, 7264>>,
    <<4301, 4301, 1, 7264>>, <<5024, 5103, 1, 38864>>, <<5104, 5109, 1, 8>>,
    <<7312, 7354, 1, -3008>>, <<7357, 7359, 1, -3008>>, <<7680, 7828, 2, 1>>,
    <<7838, 7838, 1, -7615>>, <<7840, 7934, 2, 1>>, <<7944, 7951, 1, -8>>, <<7960, 7965, 1, -8>>,
    <<7976, 7983, 1, -8>>, <<7992, 7999, 1, -8>>, <<8008, 8013, 1, -8>>, <<8025, 8031, 2, -8>>,
    <<8040, 8047, 1, -8>>, <<8072, 8079, 1, -8>>, <<8088, 8095, 1, -8>>, <<8104, 8111, 1, -8>>,
    <<8120, 8121, 1, -8>>, <<8122, 8123, 1, -74>>, <<8124, 8124, 1, -9>>, <<8136, 8139, 1, -86>>,
    <<8140, 8140, 1, -9>>, <<8152, 8153, 1, -8>>, <<8154, 8155, 1, -100>>, <<8168, 8169, 1, -8>>,
    <<8170, 8171, 1, -112>>, <<8172, 8172, 1, -7>>, <<8184, 8185, 1, -128>>,
    <<8186, 8187, 1, -126>>, <<8188, 8188, 1, -9>>, <<8486, 8486, 1, -7517>>,
    <<8490, 8490, 1, -8383>>, <<8491, 8491, 1, -8262>>, <<8498, 8498, 1, 28>>,
    <<8544, 8559, 1, 16>>, <<8579, 8579, 1, 1>>, <<9398, 9423, 1, 26>>, <<11264, 11311, 1, 48>>,
    <<11360, 11360, 1, 1>>, <<11362, 11362, 1, -10743>>, <<11363, 11363, 1, -3814>>,
    <<11364, 11364, 1, -10727>>, <<11367, 11371, 2, 1>>, <<11373, 11373, 1, -10780>>,
    <<11374, 11374, 1, -10749>>, <<11375, 11375, 1, -10783>>, <<11376, 11376, 1, -10782>>,
    <<11378, 11378, 1, 1>>, <<11381, 11381, 1, 1>>, <<11390, 11391, 1, -10815>>,
    <<11392, 11490, 2, 1>>, <<11499, 11501, 2, 1>>, <<11506, 11506, 1, 1>>, <<42560, 42604, 2, 1>>,
    <<42624, 42650, 2, 1>>, <<42786, 42798, 2, 1>>, <<42802, 42862, 2, 1>>, <<42873, 42875, 2, 1>>,
    <<42877, 42877, 1, -35332>>, <<42878, 42886, 2, 1>>, <<42891, 42891, 1, 1>>,
    <<42893, 42893, 1, -42280>>, <<42896, 42898, 2, 1>>, <<42902, 42920, 2, 1>>,
    <<42922, 42922, 1, -42308>>, <<42923, 42923, 1, -42319>>, <<42924, 42924, 1, -42315>>,
    <<42925, 42925, 1, -42305>>, <<42926, 42926, 1, -42308>>, <<42928, 42928, 1, -42258>>,
    <<42929, 42929, 1, -42282>>, <<42930, 42930, 1, -42261>>, <<42931, 42931, 1, 928>>,
    <<42932, 42946, 2, 1>>, <<42948, 42948, 1, -48>>, <<42949, 42949, 1, -42307>>,
    <<42950, 42950, 1, -35384>>, <<42951, 42953, 2, 1>>, <<42960, 42960, 1, 1>>,
    <<42966, 42968, 2, 1>>, <<42997, 42997, 1, 1>>, <<65313, 65338, 1, 32>>,
    <<66560, 66599, 1, 40>>, <<66736, 66771, 1, 40>>, <<66928, 66938, 1, 39>>,
    <<66940, 66954, 1, 39>>, <<66956, 66962, 1, 39>>, <<66964, 66965, 1, 39>>,
    <<68736, 68786, 1, 64>>, <<71840, 71871, 1, 32>>, <<93760, 93791, 1, 32>>,
    <<125184, 125217, 1, 34>>
    >>

\* str.upper() of one character that stays one character
UpperRanges ==
    <<
    <<97, 122, 1, -32>>, <<181, 181, 1, 743>>, <<224, 246, 1, -32>>, <<248, 254, 1, -32>>,
    <<255, 255, 1, 121>>, <<257, 303, 2, -1>>, <<305, 305, 1, -232>>, <<307, 311, 2, -1>>,
    <<314, 328, 2, -1>>, <<331, 375, 2, -1>>, <<378, 382, 2, -1>>, <<383, 383, 1, -300>>,
    <<384, 384, 1, 195>>, <<387, 389, 2, -1>>, <<392, 392, 1, -1>>, <<396, 396, 1, -1>>,
    <<402, 402, 1, -1>>, <<405, 405, 1, 97>>, <<409, 409, 1, -1>>, <<410, 410, 1, 163>>,
    <<414, 414, 1, 130>>, <<417, 421, 2, -1>>, <<424, 424, 1, -1>>, <<429, 429, 1, -1>>,
    <<432, 432, 1, -1>>, <<436, 438, 2, -1>>, <<441, 441, 1, -1>>, <<445, 445, 1, -1>>,
    <<447, 447, 1, 56>>, <<453, 453, 1, -1>>, <<454, 454, 1, -2>>, <<456, 456, 1, -1>>,
    <<457, 457, 1, -2>>, <<459, 459, 1, -1>>, <<460, 460, 1, -2>>, <<462, 476, 2, -1>>,
    <<477, 477, 1, -79>>, <<479, 495, 2, -1>>, <<498, 498, 1, -1>>, <<499, 499, 1, -2>>,
    <<501, 501, 1, -1>>, <<505, 543, 2, -1>>, <<547, 563, 2, -1>>, <<572, 572, 1, -1>>,
    <<575, 576, 1, 10815>>, <<578, 578, 1, -1>>, <<583, 591, 2, -1>>, <<592, 592, 1, 10783>>,
    <<593, 593, 1, 10780>>, <<594, 594, 1, 10782>>, <<595, 595, 1, -210>>, <<596, 596, 1, -206>>,
    <<598, 599, 1, -205>>, <<601, 601, 1, -202>>, <<603, 603, 1, -203>>, <<604, 604, 1, 42319>>,
    <<608, 608, 1, -205>>, <<609, 609, 1, 42315>>, <<611, 611, 1, -207>>, <<613, 613, 1, 42280>>,
    <<614, 614, 1, 42308>>, <<616, 616, 1, -209>>, <<617, 617, 1, -211>>, <<618, 618, 1, 42308>>,
    <<619, 619, 1, 10743>>, <<620, 620, 1, 42305>>, <<623, 623, 1, -211>>, <<625, 625, 1, 10749>>,
    <<626, 626, 1, -213>>, <<629, 629, 1, -214>>, <<637, 637, 1, 10727>>, <<640, 640, 1, -218>>,
    <<642, 642, 1, 42307>>, <<643, 643, 1, -218>>, <<647, 647, 1, 42282>>, <<648, 648, 1, -218>>,
    <<649, 649, 1, -69>>, <<650, 651, 1, -217>>, <<652, 652, 1, -71>>, <<658, 658, 1, -219>>,
    <<669, 669, 1, 42261>>, <<670, 670, 1, 42258>>, <<837, 837, 1, 84>>, <<881, 883, 2, -1>>,
    <<887, 887, 1, -1>>, <<891, 893, 1, 130>>, <<940, 940, 1, -38>>, <<941, 943, 1, -37>>,
    <<945, 961, 1, -32>>, <<962, 962, 1, -31>>, <<963, 971, 1, -32>>, <<972, 972, 1, -64>>,
    <<973, 974, 1, -63>>, <<976, 976, 1, -62>>, <<977, 977, 1, -57>>, <<981, 981, 1, -47>>,
    <<982, 982, 1, -54>>, <<983, 983, 1, -8>>, <<985, 1007, 2, -1>>, <<1008, 1008, 1, -86>>,
    <<1009, 1009, 1, -80>>, <<1010, 1010, 1, 7>>, <<1011, 1011, 1, -116>>, <<1013, 1013, 1, -96>>,
    <<1016, 1016, 1, -1>>, <<1019, 1019, 1, -1>>, <<1072, 1103, 1, -32>>, <<1104, 1119, 1, -80>>,
    <<1121, 1153, 2, -1>>, <<1163, 1215, 2, -1>>, <<1218, 1230, 2, -1>>, <<1231, 1231, 1, -15>>,
    <<1233, 1327, 2, -1>>, <<1377, 1414, 1, -48>>, <<4304, 4346, 1, 3008>>, <<4349, 4351, 1, 3008>>,
    <<5112, 5117, 1, -8>>, <<7296, 7296, 1, -6254>>, <<7297, 7297, 1, -6253>>,
    <<7298, 7298, 1, -6244>>, <<7299, 7300, 1, -6242>>, <<7301, 7301, 1, -6243>>,
    <<7302, 7302, 1, -6236>>, <<7303, 7303, 1, -6181>>, <<7304, 7304, 1, 35266>>,
    <<7545, 7545, 1, 35332>>, <<7549, 7549, 1, 3814>>, <<7566, 7566, 1, 35384>>,
    <<7681, 7829, 2, -1>>, <<7835, 7835, 1, -59>>, <<7841, 7935, 2, -1>>, <<7936, 7943, 1, 8>>,
    <<7952, 7957, 1, 8>>, <<7968, 7975, 1, 8>>, <<7984, 7991, 1, 8>>, <<8000, 8005, 1, 8>>,
    <<8017, 8023, 2, 8>>, <<8032, 8039, 1, 8>>, <<8048, 8049, 1, 74>>, <<8050, 8053, 1, 86>>,
    <<8054, 8055, 1, 100>>, <<8056, 8057, 1, 128>>, <<8058, 8059, 1, 112>>, <<8060, 8061, 1, 126>>,
    <<8112, 8113, 1, 8>>, <<8126, 8126, 1, -7205>>, <<8144, 8145, 1, 8>>, <<8160, 8161, 1, 8>>,
    <<8165, 8165, 1, 7>>, <<8526, 8526, 1, -28>>, <<8560, 8575, 1, -16>>, <<8580, 8580, 1, -1>>,
    <<9424, 9449, 1, -26>>, <<11312, 11359, 1, -48>>, <<11361, 11361, 1, -1>>,
    <<11365, 11365, 1, -10795>>, <<11366, 11366, 1, -10792>>, <<11368, 11372, 2, -1>>,
    <<11379, 11379, 1, -1>>, <<11382, 11382, 1, -1>>, <<11393, 11491, 2, -1>>,
    <<11500, 11502, 2, -1>>, <<11507, 11507, 1, -1>>, <<11520, 11557, 1, -7264>>,
    <<11559, 11559, 1, -7264>>, <<11565, 11565, 1, -7264>>, <<42561, 42605, 2, -1>>,
    <<42625, 42651, 2, -1>>, <<42787, 42799, 2, -1>>, <<42803, 42863, 2, -1>>,
    <<42874, 42876, 2, -1>>, <<42879, 42887, 2, -1>>, <<42892, 42892, 1, -1>>,
    <<42897, 42899, 2, -1>>, <<42900, 42900, 1, 48>>, <<42903, 42921, 2, -1>>,
    <<42933, 42947, 2, -1>>, <<42952, 42954, 2, -1>>, <<42961, 42961, 1, -1>>,
    <<42967, 42969, 2, -1>>, <<42998, 42998, 1, -1>>, <<43859, 43859, 1, -928>>,
    <<43888, 43967, 1, -38864>>, <<65345, 65370, 1, -32>>, <<66600, 66639, 1, -40>>,
    <<66776, 66811, 1, -40>>, <<66967, 66977, 1, -39>>, <<66979, 66993, 1, -39>>,
    <<66995, 67001, 1, -39>>, <<67003, 67004, 1, -39>>, <<68800, 68850, 1, -64>>,
    <<71872, 71903, 1, -32>>, <<93792, 93823, 1, -32>>, <<125218, 125251, 1, -34>>
    >>

\* the characters str.upper() turns into two or three: <<code point, result>>
UpperSpecials ==
    <<
    <<223, <<83, 83>>>>, <<329, <<700, 78>>>>, <<496, <<74, 780>>>>, <<912, <<921, 776, 769>>>>,
    <<944, <<933, 776, 769>>>>, <<1415, <<1333, 1362>>>>, <<7830, <<72, 817>>>>,
    <<7831, <<84, 776>>>>, <<7832, <<87, 778>>>>, <<7833, <<89, 778>>>>, <<7834, <<65, 702>>>>,
    <<8016, <<933, 787>>>>, <<8018, <<933, 787, 768>>>>, <<8020, <<933, 787, 769>>>>,
    <<8022, <<933, 787, 834>>>>, <<8064, <<7944, 921>>>>, <<8065, <<7945, 921>>>>,
    <<8066, <<7946, 921>>>>, <<8067, <<7947, 921>>>>, <<8068, <<7948, 921>>>>,
    <<8069, <<7949, 921>>>>, <<8070, <<7950, 921>>>>, <<8071, <<7951, 921>>>>,
    <<8072, <<7944, 921>>>>, <<8073, <<7945, 921>>>>, <<8074, <<7946, 921>>>>,
    <<8075, <<7947, 921>>>>, <<8076, <<7948, 921>>>>, <<8077, <<7949, 921>>>>,
    <<8078, <<7950, 921>>>>, <<8079, <<7951, 921>>>>, <<8080, <<7976, 921>>>>,
    <<8081, <<7977, 921>>>>, <<8082, <<7978, 921>>>>, <<8083, <<7979, 921>>>>,
    <<8084, <<7980, 921>>>>, <<8085, <<7981, 921>>>>, <<8086, <<7982, 921>>>>,
    <<8087, <<7983, 921>>>>, <<8088, <<7976, 921>>>>, <<8089, <<7977, 921>>>>,
    <<8090, <<7978, 921>>>>, <<8091, <<7979, 921>>>>, <<8092, <<7980, 921>>>>,
    <<8093, <<7981, 921>>>>, <<8094, <<7982, 921>>>>, <<8095, <<7983, 921>>>>,
    <<8096, <<8040, 921>>>>, <<8097, <<8041, 921>>>>, <<8098, <<8042, 921>>>>,
    <<8099, <<8043, 921>>>>, <<8100, <<8044, 921>>>>, <<8101, <<8045, 921>>>>,
    <<8102, <<8046, 921>>>>, <<8103, <<8047, 921>>>>, <<8104, <<8040, 921>>>>,
    <<8105, <<8041, 921>>>>, <<8106, <<8042, 921>>>>, <<8107, <<8043, 921>>>>,
    <<8108, <<8044, 921>>>>, <<8109, <<8045, 921>>>>, <<8110, <<8046, 921>>>>,
    <<8111, <<8047, 921>>>>, <<8114, <<8122, 921>>>>, <<8115, <<913, 921>>>>,
    <<8116, <<902, 921>>>>, <<8118, <<913, 834>>>>, <<8119, <<913, 834, 921>>>>,
    <<8124, <<913, 921>>>>, <<8130, <<8138, 921>>>>, <<8131, <<919, 921>>>>, <<8132, <<905, 921>>>>,
    <<8134, <<919, 834>>>>, <<8135, <<919, 834, 921>>>>, <<8140, <<919, 921>>>>,
    <<8146, <<921, 776, 768>>>>, <<8147, <<921, 776, 769>>>>, <<8150, <<921, 834>>>>,
    <<8151, <<921, 776, 834>>>>, <<8162, <<933, 776, 768>>>>, <<8163, <<933, 776, 769>>>>,
    <<8164, <<929, 787>>>>, <<8166, <<933, 834>>>>, <<8167, <<933, 776, 834>>>>,
    <<8178, <<8186, 921>>>>, <<8179, <<937, 921>>>>, <<8180, <<911, 921>>>>, <<8182, <<937, 834>>>>,
    <<8183, <<937, 834, 921>>>>, <<8188, <<937, 921>>>>, <<64256, <<70, 70>>>>,
    <<64257, <<70, 73>>>>, <<64258, <<70, 76>>>>, <<64259, <<70, 70, 73>>>>,
    <<64260, <<70, 70, 76>>>>, <<64261, <<83, 84>>>>, <<64262, <<83, 84>>>>,
    <<64275, <<1348, 1350>>>>, <<64276, <<1348, 1333>>>>, <<64277, <<1348, 1339>>>>,
    <<64278, <<1358, 1350>>>>, <<64279, <<1348, 1341>>>>
    >>

\* the cased characters that are not case-ignorable
CasedRanges ==
    <<
    <<65, 90>>, <<97, 122>>, <<170, 170>>, <<181, 181>>, <<186, 186>>, <<192, 214>>, <<216, 246>>,
    <<248, 442>>, <<444, 447>>, <<452, 659>>, <<661, 687>>, <<880, 883>>, <<886, 887>>,
    <<891, 893>>, <<895, 895>>, <<902, 902>>, <<904, 906>>, <<908, 908>>, <<910, 929>>,
    <<931, 1013>>, <<1015, 1153>>, <<1162, 1327>>, <<1329, 1366>>, <<1376, 1416>>, <<4256, 4293>>,
    <<4295, 4295>>, <<4301, 4301>>, <<4304, 4346>>, <<4349, 4351>>, <<5024, 5109>>, <<5112, 5117>>,
    <<7296, 7304>>, <<7312, 7354>>, <<7357, 7359>>, <<7424, 7467>>, <<7531, 7543>>, <<7545, 7578>>,
    <<7680, 7957>>, <<7960, 7965>>, <<7968, 8005>>, <<8008, 8013>>, <<8016, 8023>>, <<8025, 8025>>,
    <<8027, 8027>>, <<8029, 8029>>, <<8031, 8061>>, <<8064, 8116>>, <<8118, 8124>>, <<8126, 8126>>,
    <<8130, 8132>>, <<8134, 8140>>, <<8144, 8147>>, <<8150, 8155>>, <<8160, 8172>>, <<8178, 8180>>,
    <<8182, 8188>>, <<8450, 8450>>, <<8455, 8455>>, <<8458, 8467>>, <<8469, 8469>>, <<8473, 8477>>,
    <<8484, 8484>>, <<8486, 8486>>, <<8488, 8488>>, <<8490, 8493>>, <<8495, 8500>>, <<8505, 8505>>,
    <<8508, 8511>>, <<8517, 8521>>, <<8526, 8526>>, <<8544, 8575>>, <<8579, 8580>>, <<9398, 9449>>,
    <<11264, 11387>>, <<11390, 11492>>, <<11499, 11502>>, <<11506, 11507>>, <<11520, 11557>>,
    <<11559, 11559>>, <<11565, 11565>>, <<42560, 42605>>, <<42624, 42651>>, <<42786, 42863>>,
    <<42865, 42887>>, <<42891, 42894>>, <<42896, 42954>>, <<42960, 42961>>, <<42963, 42963>>,
    <<42965, 42969>>, <<42997, 42998>>, <<43002, 43002>>, <<43824, 43866>>, <<43872, 43880>>,
    <<43888, 43967>>, <<64256, 64262>>, <<64275, 64279>>, <<65313, 65338>>, <<65345, 65370>>,
    <<66560, 66639>>, <<66736, 66771>>, <<66776, 66811>>, <<66928, 66938>>, <<66940, 66954>>,
    <<66956, 66962>>, <<66964, 66965>>, <<66967, 66977>>, <<66979, 66993>>, <<66995, 67001>>,
    <<67003, 67004>>, <<68736, 68786>>, <<68800, 68850>>, <<71840, 71903>>, <<93760, 93823>>,
    <<119808, 119892>>, <<119894, 119964>>, <<119966, 119967>>, <<119970, 119970>>,
    <<119973, 119974>>, <<119977, 119980>>, <<119982, 119993>>, <<119995, 119995>>,
    <<119997, 120003>>, <<120005, 120069>>, <<120071, 120074>>, <<120077, 120084>>,
    <<120086, 120092>>, <<120094, 120121>>, <<120123, 120126>>, <<120128, 120132>>,
    <<120134, 120134>>, <<120138, 120144>>, <<120146, 120485>>, <<120488, 120512>>,
    <<120514, 120538>>, <<120540, 120570>>, <<120572, 120596>>, <<120598, 120628>>,
    <<120630, 120654>>, <<120656, 120686>>, <<120688, 120712>>, <<120714, 120744>>,
    <<120746, 120770>>, <<120772, 120779>>, <<122624, 122633>>, <<122635, 122654>>,
    <<125184, 125251>>, <<127280, 127305>>, <<127312, 127337>>, <<127344, 127369>>
    >>

\* the case-ignorable characters
CaseIgnorableRanges ==
    <<
    <<39, 39>>, <<46, 46>>, <<58, 58>>, <<94, 94>>, <<96, 96>>, <<168, 168>>, <<173, 173>>,
    <<175, 175>>, <<180, 180>>, <<183, 184>>, <<688, 879>>, <<884, 885>>, <<890, 890>>,
    <<900, 901>>, <<903, 903>>, <<1155, 1161>>, <<1369, 1369>>, <<1375, 1375>>, <<1425, 1469>>,
    <<1471, 1471>>, <<1473, 1474>>, <<1476, 1477>>, <<1479, 1479>>, <<1524, 1524>>, <<1536, 1541>>,
    <<1552, 1562>>, <<1564, 1564>>, <<1600, 1600>>, <<1611, 1631>>, <<1648, 1648>>, <<1750, 1757>>,
    <<1759, 1768>>, <<1770, 1773>>, <<1807, 1807>>, <<1809, 1809>>, <<1840, 1866>>, <<1958, 1968>>,
    <<2027, 2037>>, <<2042, 2042>>, <<2045, 2045>>, <<2070, 2093>>, <<2137, 2139>>, <<2184, 2184>>,
    <<2192, 2193>>, <<2200, 2207>>, <<2249, 2306>>, <<2362, 2362>>, <<2364, 2364>>, <<2369, 2376>>,
    <<2381, 2381>>, <<2385, 2391>>, <<2402, 2403>>, <<2417, 2417>>, <<2433, 2433>>, <<2492, 2492>>,
    <<2497, 2500>>, <<2509, 2509>>, <<2530, 2531>>, <<2558, 2558>>, <<2561, 2562>>, <<2620, 2620>>,
    <<2625, 2626>>, <<2631, 2632>>, <<2635, 2637>>, <<2641, 2641>>, <<2672, 2673>>, <<2677, 2677>>,
    <<2689, 2690>>, <<2748, 2748>>, <<2753, 2757>>, <<2759, 2760>>, <<2765, 2765>>, <<2786, 2787>>,
    <<2810, 2815>>, <<2817, 2817>>, <<2876, 2876>>, <<2879, 2879>>, <<2881, 2884>>, <<2893, 2893>>,
    <<2901, 2902>>, <<2914, 2915>>, <<2946, 2946>>, <<3008, 3008>>, <<3021, 3021>>, <<3072, 3072>>,
    <<3076, 3076>>, <<3132, 3132>>, <<3134, 3136>>, <<3142, 3144>>, <<3146, 3149>>, <<3157, 3158>>,
    <<3170, 3171>>, <<3201, 3201>>, <<3260, 3260>>, <<3263, 3263>>, <<3270, 3270>>, <<3276, 3277>>,
    <<3298, 3299>>, <<3328, 3329>>, <<3387, 3388>>, <<3393, 3396>>, <<3405, 3405>>, <<3426, 3427>>,
    <<3457, 3457>>, <<3530, 3530>>, <<3538, 3540>>, <<3542, 3542>>, <<3633, 3633>>, <<3636, 3642>>,
    <<3654, 3662>>, <<3761, 3761>>, <<3764, 3772>>, <<3782, 3782>>, <<3784, 3789>>, <<3864, 3865>>,
    <<3893, 3893>>, <<3895, 3895>>, <<3897, 3897>>, <<3953, 3966>>, <<3968, 3972>>, <<3974, 3975>>,
    <<3981, 3991>>, <<3993, 4028>>, <<4038, 4038>>, <<4141, 4144>>, <<4146, 4151>>, <<4153, 4154>>,
    <<4157, 4158>>, <<4184, 4185>>, <<4190, 4192>>, <<4209, 4212>>, <<4226, 4226>>, <<4229, 4230>>,
    <<4237, 4237>>, <<4253, 4253>>, <<4348, 4348>>, <<4957, 4959>>, <<5906, 5908>>, <<5938, 5939>>,
    <<5970, 5971>>, <<6002, 6003>>, <<6068, 6069>>, <<6071, 6077>>, <<6086, 6086>>, <<6089, 6099>>,
    <<6103, 6103>>, <<6109, 6109>>, <<6155, 6159>>, <<6211, 6211>>, <<6277, 6278>>, <<6313, 6313>>,
    <<6432, 6434>>, <<6439, 6440>>, <<6450, 6450>>, <<6457, 6459>>, <<6679, 6680>>, <<6683, 6683>>,
    <<6742, 6742>>, <<6744, 6750>>, <<6752, 6752>>, <<6754, 6754>>, <<6757, 6764>>, <<6771, 6780>>,
    <<6783, 6783>>, <<6823, 6823>>, <<6832, 6862>>, <<6912, 6915>>, <<6964, 6964>>, <<6966, 6970>>,
    <<6972, 6972>>, <<6978, 6978>>, <<7019, 7027>>, <<7040, 7041>>, <<7074, 7077>>, <<7080, 7081>>,
    <<7083, 7085>>, <<7142, 7142>>, <<7144, 7145>>, <<7149, 7149>>, <<7151, 7153>>, <<7212, 7219>>,
    <<7222, 7223>>, <<7288, 7293>>, <<7376, 7378>>, <<7380, 7392>>, <<7394, 7400>>, <<7405, 7405>>,
    <<7412, 7412>>, <<7416, 7417>>, <<7468, 7530>>, <<7544, 7544>>, <<7579, 7679>>, <<8125, 8125>>,
    <<8127, 8129>>, <<8141, 8143>>, <<8157, 8159>>, <<8173, 8175>>, <<8189, 8190>>, <<8203, 8207>>,
    <<8216, 8217>>, <<8228, 8228>>, <<8231, 8231>>, <<8234, 8238>>, <<8288, 8292>>, <<8294, 8303>>,
    <<8305, 8305>>, <<8319, 8319>>, <<8336, 8348>>, <<8400, 8432>>, <<11388, 11389>>,
    <<11503, 11505>>, <<11631, 11631>>, <<11647, 11647>>, <<11744, 11775>>, <<11823, 11823>>,
    <<12293, 12293>>, <<12330, 12333>>, <<12337, 12341>>, <<12347, 12347>>, <<12441, 12446>>,
    <<12540, 12542>>, <<40981, 40981>>, <<42232, 42237>>, <<42508, 42508>>, <<42607, 42610>>,
    <<42612, 42621>>, <<42623, 42623>>, <<42652, 42655>>, <<42736, 42737>>, <<42752, 42785>>,
    <<42864, 42864>>, <<42888, 42890>>, <<42994, 42996>>, <<43000, 43001>>, <<43010, 43010>>,
    <<43014, 43014>>, <<43019, 43019>>, <<43045, 43046>>, <<43052, 43052>>, <<43204, 43205>>,
    <<43232, 43249>>, <<43263, 43263>>, <<43302, 43309>>, <<43335, 43345>>, <<43392, 43394>>,
    <<43443, 43443>>, <<43446, 43449>>, <<43452, 43453>>, <<43471, 43471>>, <<43493, 43494>>,
    <<43561, 43566>>, <<43569, 43570>>, <<43573, 43574>>, <<43587, 43587>>, <<43596, 43596>>,
    <<43632, 43632>>, <<43644, 43644>>, <<43696, 43696>>, <<43698, 43700>>, <<43703, 43704>>,
    <<43710, 43711>>, <<43713, 43713>>, <<43741, 43741>>, <<43756, 43757>>, <<43763, 43764>>,
    <<43766, 43766>>, <<43867, 43871>>, <<43881, 43883>>, <<44005, 44005>>, <<44008, 44008>>,
    <<44013, 44013>>, <<64286, 64286>>, <<64434, 64450>>, <<65024, 65039>>, <<65043, 65043>>,
    <<65056, 65071>>, <<65106, 65106>>, <<65109, 65109>>, <<65279, 65279>>, <<65287, 65287>>,
    <<65294, 65294>>, <<65306, 65306>>, <<65342, 65342>>, <<65344, 65344>>, <<65392, 65392>>,
    <<65438, 65439>>, <<65507, 65507>>, <<65529, 65531>>, <<66045, 66045>>, <<66272, 66272>>,
    <<66422, 66426>>, <<67456, 67461>>, <<67463, 67504>>, <<67506, 67514>>, <<68097, 68099>>,
    <<68101, 68102>>, <<68108, 68111>>, <<68152, 68154>>, <<68159, 68159>>, <<68325, 68326>>,
    <<68900, 68903>>, <<69291, 69292>>, <<69446, 69456>>, <<69506, 69509>>, <<69633, 69633>>,
    <<69688, 69702>>, <<69744, 69744>>, <<69747, 69748>>, <<69759, 69761>>, <<69811, 69814>>,
    <<69817, 69818>>, <<69821, 69821>>, <<69826, 69826>>, <<69837, 69837>>, <<69888, 69890>>,
    <<69927, 69931>>, <<69933, 69940>>, <<70003, 70003>>, <<70016, 70017>>, <<70070, 70078>>,
    <<70089, 70092>>, <<70095, 70095>>, <<70191, 70193>>, <<70196, 70196>>, <<70198, 70199>>,
    <<70206, 70206>>, <<70367, 70367>>, <<70371, 70378>>, <<70400, 70401>>, <<70459, 70460>>,
    <<70464, 70464>>, <<70502, 70508>>, <<70512, 70516>>, <<70712, 70719>>, <<70722, 70724>>,
    <<70726, 70726>>, <<70750, 70750>>, <<70835, 70840>>, <<70842, 70842>>, <<70847, 70848>>,
    <<70850, 70851>>, <<71090, 71093>>, <<71100, 71101>>, <<71103, 71104>>, <<71132, 71133>>,
    <<71219, 71226>>, <<71229, 71229>>, <<71231, 71232>>, <<71339, 71339>>, <<71341, 71341>>,
    <<71344, 71349>>, <<71351, 71351>>, <<71453, 71455>>, <<71458, 71461>>, <<71463, 71467>>,
    <<71727, 71735>>, <<71737, 71738>>, <<71995, 71996>>, <<71998, 71998>>, <<72003, 72003>>,
    <<72148, 72151>>, <<72154, 72155>>, <<72160, 72160>>, <<72193, 72202>>, <<72243, 72248>>,
    <<72251, 72254>>, <<72263, 72263>>, <<72273, 72278>>, <<72281, 72283>>, <<72330, 72342>>,
    <<72344, 72345>>, <<72752, 72758>>, <<72760, 72765>>, <<72767, 72767>>, <<72850, 72871>>,
    <<72874, 72880>>, <<72882, 72883>>, <<72885, 72886>>, <<73009, 73014>>, <<73018, 73018>>,
    <<73020, 73021>>, <<73023, 73029>>, <<73031, 73031>>, <<73104, 73105>>, <<73109, 73109>>,
    <<73111, 73111>>, <<73459, 73460>>, <<78896, 78904>>, <<92912, 92916>>, <<92976, 92982>>,
    <<92992, 92995>>, <<94031, 94031>>, <<94095, 94111>>, <<94176, 94177>>, <<94179, 94180>>,
    <<110576, 110579>>, <<110581, 110587>>, <<110589, 110590>>, <<113821, 113822>>,
    <<113824, 113827>>, <<118528, 118573>>, <<118576, 118598>>, <<119143, 119145>>,
    <<119155, 119170>>, <<119173, 119179>>, <<119210, 119213>>, <<119362, 119364>>,
    <<121344, 121398>>, <<121403, 121452>>, <<121461, 121461>>, <<121476, 121476>>,
    <<121499, 121503>>, <<121505, 121519>>, <<122880, 122886>>, <<122888, 122904>>,
    <<122907, 122913>>, <<122915, 122916>>, <<122918, 122922>>, <<123184, 123197>>,
    <<123566, 123566>>, <<123628, 123631>>, <<125136, 125142>>, <<125252, 125259>>,
    <<127995, 127999>>, <<917505, 917505>>, <<917536, 917631>>, <<917760, 917999>>
    >>


InRanges(n, ranges) == \E i \in 1..Len(ranges) : ranges[i][1] <= n /\ n <= ranges[i][2]

\* n moved by the shift of the entry that holds it, n itself when none does
Shifted(n, ranges) ==
    LET hit == {i \in 1..Len(ranges) :
                   /\ ranges[i][1] <= n /\ n <= ranges[i][2]
                   /\ (n - ranges[i][1]) % ranges[i][3] = 0}
    IN  IF hit = {} THEN n ELSE n + ranges[CHOOSE i \in hit : TRUE][4]

\* c.isspace(), and the white space of C's isspace()
IsSpace(c) ==
    \/ c \in {" ", "\t", "\n", "\r", "\f"}
    \/ Len(c) > 1 /\ InRanges(Ord(c), SpaceRanges)
CSpaces == {" ", "\t", "\n", "\r", "\f", "U+000B"}

\* c is a decimal digit (\d), and the digit it denotes
IsDigit(c) ==
    \/ c \in DigitChars
    \/ Len(c) > 1 /\ \E i \in 1..Len(DecimalZeros) :
                        DecimalZeros[i] <= Ord(c) /\ Ord(c) <= DecimalZeros[i] + 9
DigitVal(c) ==
    IF Len(c) = 1 THEN IndexIn(Digits09, c) - 1
    ELSE Only({n - DecimalZeros[CHOOSE i \in 1..Len(DecimalZeros) :
                                  DecimalZeros[i] <= n /\ n <= DecimalZeros[i] + 9] :
                n \in {Ord(c)}})

\* the digits a text of decimal digits denotes
DigitVals(w) == [i \in 1..Len(w) |-> DigitVal(w[i])]

\* the text of a digit string
DigitStr(ds) == [i \in 1..Len(ds) |-> Digits09[ds[i] + 1]]

\* the sequences of a sequence, joined
RECURSIVE Flatten(_)
Flatten(ss) ==
    IF Len(ss) = 0 THEN <<>>
    ELSE IF Len(ss) = 1 THEN ss[1]
    ELSE Flatten(SubSeq(ss, 1, Len(ss) \div 2)) \o Flatten(SubSeq(ss, Len(ss) \div 2 + 1, Len(ss)))

\* c.lower() and c.upper() for one character, the capital sigma apart
ToLowerChar(c) ==
    IF Len(c) = 1
    THEN <<IF c \in UpperChars THEN LowerLetters[IndexIn(UpperLetters, c)] ELSE c>>
    ELSE IF c = "U+0130" THEN <<"i", "U+0307">>
    ELSE <<Chr(Shifted(Ord(c), LowerRanges))>>

ToUpperChar(c) ==
    IF Len(c) = 1
    THEN <<IF c \in LowerChars THEN UpperLetters[IndexIn(LowerLetters, c)] ELSE c>>
    ELSE Only({IF \E i \in 1..Len(UpperSpecials) : UpperSpecials[i][1] = n
               THEN LET r == UpperSpecials[CHOOSE i \in 1..Len(UpperSpecials) :
                                             UpperSpecials[i][1] = n][2]
                    IN  [j \in 1..Len(r) |-> Chr(r[j])]
               ELSE <<Chr(Shifted(n, UpperRanges))>> :
                 n \in {Ord(c)}})

IsCased(c) == InRanges(Ord(c), CasedRanges)
IsCaseIgnorable(c) == InRanges(Ord(c), CaseIgnorableRanges)

\* the capital sigma at i ends a word: the nearest character before it that
\* is not case-ignorable is cased, and the nearest one after it is not
FinalSigma(w, i) ==
    /\ \E j \in 1..(i - 1) :
          /\ IsCased(w[j]) /\ ~IsCaseIgnorable(w[j])
          /\ \A k \in (j + 1)..(i - 1) : IsCaseIgnorable(w[k])
    /\ ~\E j \in (i + 1)..Len(w) :
          /\ IsCased(w[j]) /\ ~IsCaseIgnorable(w[j])
          /\ \A k \in (i + 1)..(j - 1) : IsCaseIgnorable(w[k])

\* str.lower() and str.upper()
lower(w) ==
    Flatten([i \in 1..Len(w) |->
                IF w[i] = "U+03A3"
                THEN <<IF FinalSigma(w, i) THEN "U+03C2" ELSE "U+03C3">>
                ELSE ToLowerChar(w[i])])
upper(w) == Flatten([i \in 1..Len(w) |-> ToUpperChar(w[i])])

\* str.strip()
strip(w) ==
    IF \A i \in 1..Len(w) : IsSpace(w[i]) THEN <<>>
    ELSE SubSeq(w,
                CHOOSE i \in 1..Len(w) : ~IsSpace(w[i]) /\ \A k \in 1..(i - 1) : IsSpace(w[k]),
                CHOOSE j \in 1..Len(w) : ~IsSpace(w[j]) /\ \A k \in (j + 1)..Len(w) : IsSpace(w[k]))

\* w[i:] starts with p, w.startswith(p), and p in w
StartsAt(w, i, p) == i + Len(p) - 1 <= Len(w) /\ \A j \in 1..Len(p) : w[i + j - 1] = p[j]
StartsWith(w, p) == StartsAt(w, 1, p)
Contains(w, p) == \E i \in 1..(Len(w) - Len(p) + 1) : StartsAt(w, i, p)

----------------------------------------------------------------------------
(* Patterns of the re module.  A pattern is the sequence of its items; a    *)
(* character class is the characters it lists, whether it takes \s and \d,  *)
(* and whether it is negated.  No pattern of the source can match after an  *)
(* item gives back what it took, so the items are matched greedily from     *)
(* left to right.                                                           *)

Class(chars)    == [neg |-> FALSE, chars |-> chars, s |-> FALSE, d |-> FALSE]
NotClass(chars) == [neg |-> TRUE, chars |-> chars, s |-> FALSE, d |-> FALSE]
\* \s, \d, and [^...\s]
SpaceClass == [neg |-> FALSE, chars |-> {}, s |-> TRUE, d |-> FALSE]
DigitClass == [neg |-> FALSE, chars |-> {}, s |-> FALSE, d |-> TRUE]
NotClassOrSpace(chars) == [neg |-> TRUE, chars |-> chars, s |-> TRUE, d |-> FALSE]

InClass(c, cls) ==
    /\ c # ""
    /\ cls.neg # (c \in cls.chars \/ (cls.s /\ IsSpace(c)) \/ (cls.d /\ IsDigit(c)))

\* the items: a literal text, one character of a class, x?, x*, x+ for a
\* class x, the start and the end of group n, (?:pat)?, word1|word2|.., and $
Lit(s)      == [op |-> "lit", s |-> Chars(s)]
One(cls)    == [op |-> "one", cls |-> cls]
Opt(cls)    == [op |-> "opt", cls |-> cls]
Star(cls)   == [op |-> "star", cls |-> cls]
Plus(cls)   == [op |-> "plus", cls |-> cls]
Open(n)     == [op |-> "open", n |-> n]
Close(n)    == [op |-> "close", n |-> n]
Maybe(pat)  == [op |-> "maybe", pat |-> pat]
Alt(words)  == [op |-> "alt", words |-> [j \in 1..Len(words) |-> Chars(words[j])]]
Dollar      == [op |-> "$"]

\* the end of the run of characters of the class that starts at i
RunEnd(w, i, cls) ==
    CHOOSE j \in i..(Len(w) + 1) :
        ~InClass(At(w, j), cls) /\ \A k \in i..(j - 1) : InClass(w[k], cls)

\* a match: the position after it and the groups <<start, end>> (end is the
\* position after the group; <<0, 0>> for a group that took no part)
Match(end, groups) == [end |-> end, groups |-> groups]
NoGroups == [n \in 1..5 |-> <<0, 0>>]

\* the pattern from item k on, matched at position i
RECURSIVE MatchFrom(_, _, _, _, _)
RECURSIVE MatchItem(_, _, _, _)
MatchFrom(pat, k, w, i, groups) ==
    IF k > Len(pat) THEN Match(i, groups)
    ELSE Only({IF m = None THEN None ELSE MatchFrom(pat, k + 1, w, m.end, m.groups) :
                m \in {MatchItem(pat[k], w, i, groups)}})

MatchItem(item, w, i, groups) ==
    CASE item.op = "lit"   -> IF StartsAt(w, i, item.s) THEN Match(i + Len(item.s), groups)
                              ELSE None
      [] item.op = "one"   -> IF InClass(At(w, i), item.cls) THEN Match(i + 1, groups)
                              ELSE None
      [] item.op = "opt"   -> Match(IF InClass(At(w, i), item.cls) THEN i + 1 ELSE i, groups)
      [] item.op = "star"  -> Match(RunEnd(w, i, item.cls), groups)
      [] item.op = "plus"  -> IF InClass(At(w, i), item.cls)
                              THEN Match(RunEnd(w, i, item.cls), groups) ELSE None
      [] item.op = "open"  -> Match(i, [groups EXCEPT ![item.n] = <<i, i>>])
      [] item.op = "close" -> Match(i, [groups EXCEPT ![item.n] = <<groups[item.n][1], i>>])
      [] item.op = "maybe" -> Only({IF m = None THEN Match(i, groups) ELSE m :
                                      m \in {MatchFrom(item.pat, 1, w, i, groups)}})
      [] item.op = "alt"   ->
            IF \E j \in 1..Len(item.words) : StartsAt(w, i, item.words[j])
            THEN Match(i + Len(item.words[CHOOSE j \in 1..Len(item.words) :
                                             /\ StartsAt(w, i, item.words[j])
                                             /\ \A l \in 1..(j - 1) :
                                                   ~StartsAt(w, i, item.words[l])]),
                       groups)
            ELSE None
      \* the end of the text, or the newline that ends it
      [] item.op = "$"     -> IF i = Len(w) + 1 \/ (i = Len(w) /\ w[i] = "\n")
                              THEN Match(i, groups) ELSE None

\* re.match(pat, w) and re.search(pat, w): the match at the first position
\* that has one
re_match(pat, w) == MatchFrom(pat, 1, w, 1, NoGroups)

re_search(pat, w) ==
    Only({IF starts = {} THEN None
          ELSE MatchFrom(pat, 1, w, CHOOSE i \in starts : \A j \in starts : i <= j, NoGroups) :
            starts \in {{i \in 1..Len(w) : MatchFrom(pat, 1, w, i, NoGroups) # None}}})

\* match.group(n)
group(w, m, n) ==
    IF m.groups[n][2] <= m.groups[n][1] THEN <<>>
    ELSE SubSeq(w, m.groups[n][1], m.groups[n][2] - 1)


----------------------------------------------------------------------------
(* Literals as the corpus writes them: [-]ip, [-]ip.fp, [-]ip[.fp]E[-]exp   *)
(* or a word, bare (wrap = "") or inside wrap('..') for wrap one of         *)
(* "xs:integer", "xs:float", "xs:double", "xs:boolean".                     *)

Sign(neg) == IF neg THEN <<"-">> ELSE <<>>
Wrapped(wrap, inner) ==
    IF wrap = "" THEN inner ELSE Chars(wrap) \o <<"(", "'">> \o inner \o <<"'", ")">>

DigitsText(wrap, neg, ip) == Wrapped(wrap, Sign(neg) \o DigitStr(ip))
DecimalText(wrap, neg, ip, fp) ==
    Wrapped(wrap, Sign(neg) \o DigitStr(ip) \o <<".">> \o DigitStr(fp))
ExpText(wrap, neg, ip, fp, exp) ==
    Wrapped(wrap, Sign(neg) \o DigitStr(ip)
                    \o (IF fp = <<>> THEN <<>> ELSE <<".">> \o DigitStr(fp))
                    \o <<"E">> \o Sign(exp < 0)
                    \o DigitStr(NatDigits(IF exp < 0 THEN -exp ELSE exp)))
WordText(wrap, w) == Wrapped(wrap, w)

Quotes == Class({"'", "\""})
Signs == Class({"+", "-"})

\* int(text) for a text -?\d+; Raises stands for the ValueError of a text
\* of more than 4300 digits (sys.int_info.default_max_str_digits), leading
\* zeros counted
PyIntOfStr(w) ==
    Only({IF Len(ds) > 4300 THEN Raises
          ELSE MkInt(At(w, 1) = "-", DigitVals(ds)) :
            ds \in {IF At(w, 1) = "-" THEN SubSeq(w, 2, Len(w)) ELSE w}})

\* xs:integer\s*\(\s*['\"]?(-?\d+)['\"]?\s*\) and ^-?\d+$
XsIntegerPattern ==
    <<Lit("xs:integer"), Star(SpaceClass), Lit("("), Star(SpaceClass), Opt(Quotes),
      Open(1), Opt(Class({"-"})), Plus(DigitClass), Close(1),
      Opt(Quotes), Star(SpaceClass), Lit(")")>>
IntegerPattern == <<Opt(Class({"-"})), Plus(DigitClass), Dollar>>

parse_integer(value) ==
    Only({Only({IF m # None THEN PyIntOfStr(group(v, m, 1))
                ELSE IF re_match(IntegerPattern, v) # None THEN PyIntOfStr(v)
                ELSE None :
                  m \in {re_match(XsIntegerPattern, v)}}) :
            v \in {strip(value)}})

\* xs:boolean\s*\(['\"]?(true|false)['\"]?\)
XsBooleanPattern ==
    <<Lit("xs:boolean"), Star(SpaceClass), Lit("("), Opt(Quotes),
      Open(1), Alt(<<"true", "false">>), Close(1), Opt(Quotes), Lit(")")>>

TrueWords == {Chars("true"), Chars("true()"), Chars("fn:true()")}
FalseWords == {Chars("false"), Chars("false()"), Chars("fn:false()")}

parse_boolean(value) ==
    Only({IF v \in TrueWords THEN BoolV(TRUE)
          ELSE IF v \in FalseWords THEN BoolV(FALSE)
          ELSE Only({IF m # None THEN BoolV(group(v, m, 1) = Chars("true")) ELSE None :
                        m \in {re_match(XsBooleanPattern, v)}}) :
            v \in {lower(strip(value))}})

\* float(text) reads the text with every white space beyond ASCII as a
\* space and every decimal digit as its ASCII digit; any other character
\* beyond ASCII is none it can read
AsciiForm(c) ==
    IF Len(c) = 1 THEN c
    ELSE Only({IF n < 127 THEN c
               ELSE IF InRanges(n, SpaceRanges) THEN " "
               ELSE IF IsDigit(c) THEN Digits09[DigitVal(c) + 1]
               ELSE "?" :
                 n \in {Ord(c)}})

\* an underscore stands between two digits
UnderscoresBetweenDigits(a) ==
    \A i \in 1..Len(a) :
        a[i] = "_" => (At(a, i - 1) \in DigitChars /\ At(a, i + 1) \in DigitChars)

WithoutUnderscores(a) == SelectSeq(a, LAMBDA c : c # "_")

\* the text without the white space of C around it
CStrip(a) ==
    IF \A i \in 1..Len(a) : a[i] \in CSpaces THEN <<>>
    ELSE SubSeq(a,
                CHOOSE i \in 1..Len(a) : a[i] \notin CSpaces /\ \A k \in 1..(i - 1) : a[k] \in CSpaces,
                CHOOSE j \in 1..Len(a) : a[j] \notin CSpaces /\ \A k \in (j + 1)..Len(a) : a[k] \in CSpaces)

\* a number: [+-]? digits [. digits] ([eE] [+-]? digits)?, and the words
NumberPattern ==
    <<Open(1), Opt(Signs), Close(1), Open(2), Star(Class(DigitChars)), Close(2),
      Maybe(<<Lit("."), Open(3), Star(Class(DigitChars)), Close(3)>>),
      Maybe(<<One(Class({"e", "E"})), Open(4), Opt(Signs), Close(4),
              Open(5), Plus(Class(DigitChars)), Close(5)>>)>>
InfinityWords == {Chars("inf"), Chars("infinity")}

\* the exponent a text of digits denotes, 10^6 standing for any beyond it
ExponentOf(ed) ==
    Only({IF Len(z) > 6 THEN 1000000 ELSE DigitsNat(z) : z \in {StripZeros(DigitVals(ed))}})

\* the double nearest to ds * 10^x: zero when every digit is 0, whatever
\* the exponent; else an infinity beyond 10^330 and zero below 10^-346
NearestDouble(neg, ds, x) ==
    Only({DecimalToDouble(neg,
                          IF IsZeroMag(D) THEN <<0>>
                          ELSE IF Len(D) + x > 330 THEN <<1>>
                          ELSE IF Len(D) + x < -345 THEN <<0>> ELSE D,
                          IF IsZeroMag(D) THEN 0
                          ELSE IF Len(D) + x > 330 THEN 330
                          ELSE IF Len(D) + x < -345 THEN 0 ELSE x) :
            D \in {StripZeros(ds)}})

\* the text s after the sign as a number, Raises when it is none
NumberOf(neg, s, m) ==
    IF m.end # Len(s) + 1 \/ group(s, m, 2) \o group(s, m, 3) = <<>>
    THEN (IF lower(SubSeq(s, m.groups[1][2], Len(s))) \in InfinityWords
          THEN FloatV("inf", neg, 0, 0)
          ELSE IF lower(SubSeq(s, m.groups[1][2], Len(s))) = Chars("nan")
          THEN FloatV("nan", neg, 0, 0)
          ELSE Raises)
    ELSE NearestDouble(neg, DigitVals(group(s, m, 2) \o group(s, m, 3)),
                       (IF group(s, m, 4) = <<"-">> THEN -ExponentOf(group(s, m, 5))
                        ELSE ExponentOf(group(s, m, 5))) - Len(group(s, m, 3)))

\* Python's float(text): the double nearest to a numeric literal, or one of
\* the special words; Raises stands for ValueError.
float(value) ==
    Only({IF ~UnderscoresBetweenDigits(a) THEN Raises
          ELSE Only({Only({NumberOf(At(s, 1) = "-", s, m) : m \in {re_match(NumberPattern, s)}}) :
                        s \in {CStrip(WithoutUnderscores(a))}}) :
            a \in {[i \in 1..Len(value) |-> AsciiForm(value[i])]}})

\* float(text), None on ValueError; of xs:float('text') / xs:double('text')
\* (special) the spellings NAN, INF and -INF in any case on ValueError
FloatOrSpecial(text, type, special) ==
    Only({IF f # Raises THEN [val |-> f, type |-> type]
          ELSE IF ~special THEN None
          ELSE IF upper(text) = Chars("NAN")
          THEN [val |-> FloatV("nan", FALSE, 0, 0), type |-> type]
          ELSE IF upper(text) = Chars("INF")
          THEN [val |-> FloatV("inf", FALSE, 0, 0), type |-> type]
          ELSE IF upper(text) = Chars("-INF")
          THEN [val |-> FloatV("inf", TRUE, 0, 0), type |-> type]
          ELSE None :
            f \in {float(text)}})

\* xs:float\s*\(\s*['\"]?([^'\")\s]+)['\"]?\s*\), the same for xs:double,
\* ^-?\d+\.?\d*[eE][+-]?\d+$ and ^-?\d+\.\d+$
XsNumberPattern(name) ==
    <<Lit(name), Star(SpaceClass), Lit("("), Star(SpaceClass), Opt(Quotes),
      Open(1), Plus(NotClassOrSpace({"'", "\"", ")"})), Close(1),
      Opt(Quotes), Star(SpaceClass), Lit(")")>>
XsFloatPattern == XsNumberPattern("xs:float")
XsDoublePattern == XsNumberPattern("xs:double")
ExponentPattern ==
    <<Opt(Class({"-"})), Plus(DigitClass), Opt(Class({"."})), Star(DigitClass),
      One(Class({"e", "E"})), Opt(Signs), Plus(DigitClass), Dollar>>
DecimalPattern ==
    <<Opt(Class({"-"})), Plus(DigitClass), Lit("."), Plus(DigitClass), Dollar>>

parse_float(value) ==
    Only({Only({IF mf # None \/ md # None
                      \/ re_match(ExponentPattern, v) # None
                      \/ re_match(DecimalPattern, v) # None
                \* xs:float('..'), xs:double('..') and the plain literal: the
                \* same steps, the type and the special spellings apart
                THEN FloatOrSpecial(IF mf # None THEN group(v, mf, 1)
                                    ELSE IF md # None THEN group(v, md, 1) ELSE v,
                                    IF mf # None THEN "float" ELSE "double",
                                    mf # None \/ md # None)
                ELSE None :
                  mf \in {re_match(XsFloatPattern, v)},
                  md \in {re_match(XsDoublePattern, v)}}) :
            v \in {strip(value)}})


\* the magnitude of a finite float that is not zero
MagOf(f) == IF f.cls = "wide" THEN f.m ELSE NatDigits(f.m)

\* the exponent of the last binary digit a format keeps of m * 2^e: p digits
\* after the first, and none below 2^lowest
QuantumExp(m, e, p, lowest) ==
    Only({IF x > lowest THEN x ELSE lowest : x \in {e + BitLenMag(m) - 1 - p}})

\* m / 2^d rounded half-even to a whole number
RoundedShift(m, d) ==
    IF d <= 0 THEN DigitsNat(MagMulPow2(m, -d))
    ELSE IF d > 54 THEN 0
    ELSE DigitsNat(RoundHalfEven(MagDivPow2(m, d - 1), ~DividesPow2(m, d - 1), 0).m)

\* the exponent and fraction fields of the single nearest to m * 2^e, as one
\* int: with M the value in units of 2^qe it is (qe + 149) * 2^23 + M, a
\* carry out of the fraction being a step of the exponent.  Raises when the
\* nearest single is beyond the largest.
SingleFields(qe, M) ==
    IF qe + 149 >= 254 \/ (qe + 149 = 253 /\ M = Pow2(24)) THEN Raises
    ELSE IntOf((qe + 149) * Pow2(23) + M)

SingleBits(m, e) ==
    Only({SingleFields(qe, RoundedShift(m, qe - e)) : qe \in {QuantumExp(m, e, 23, -149)}})

\* the same for the double m * 2^e, as a magnitude
DoubleBits(m, e) ==
    Only({MagAdd(MagMulPow2(NatDigits(qe + 1074), 52), MagMulPow2(m, e - qe)) :
            qe \in {QuantumExp(m, e, 52, -1074)}})

\* the 31 bits below the sign of struct.pack('>f', f)
SingleBelowSign(f) ==
    CASE f.cls = "nan" -> IntOf(255 * Pow2(23) + Pow2(22))
      [] f.cls = "inf" -> IntOf(255 * Pow2(23))
      [] f.cls = "fin" /\ f.m = 0 -> IntOf(0)
      [] OTHER -> SingleBits(MagOf(f), f.e)

\* the 32-bit pattern of the magnitude: the sign bit is left clear
PatternOfMagnitude(f) == SingleBelowSign(f)

\* struct.pack('>f', f) read back as an unsigned integer.  Raises stands for
\* OverflowError (a finite value beyond the single-precision range).
float_to_bits(f) ==
    Only({IF low = Raises THEN Raises
          ELSE MkInt(FALSE, MagAdd(IF f.neg THEN <<2,1,4,7,4,8,3,6,4,8>> ELSE <<0>>,  \* 2^31
                                   low.mag)) :
            low \in {SingleBelowSign(f)}})

\* struct.pack('>d', f) read back as an unsigned integer
double_to_bits(f) ==
    LET sign == IF f.neg THEN <<9,2,2,3,3,7,2,0,3,6,8,5,4,7,7,5,8,0,8>> ELSE <<0>>  \* 2^63
        below == CASE f.cls = "nan" -> MagMulPow2(NatDigits(2047 * Pow2(20) + Pow2(19)), 32)
                   [] f.cls = "inf" -> MagMulPow2(NatDigits(2047 * Pow2(20)), 32)
                   [] f.cls = "fin" /\ f.m = 0 -> <<0>>
                   [] OTHER -> DoubleBits(MagOf(f), f.e)
    IN  MkInt(FALSE, MagAdd(sign, below))

\* f == 0.0
FloatIsZero(f) == f.cls = "fin" /\ f.m = 0

----------------------------------------------------------------------------
(* i64 bounds *)

I64_MIN == MkInt(TRUE,  <<9,2,2,3,3,7,2,0,3,6,8,5,4,7,7,5,8,0,8>>)
I64_MAX == MkInt(FALSE, <<9,2,2,3,3,7,2,0,3,6,8,5,4,7,7,5,8,0,7>>)

_fits_in_i64(val) == IntLeq(I64_MIN, val) /\ IntLeq(val, I64_MAX)

----------------------------------------------------------------------------
\* days from 1970-01-01 to the civil date y-m-d (proleptic Gregorian), the
\* day count behind Python's datetime subtraction
DaysFromCivil(y, m, d) ==
    LET yy  == IF m <= 2 THEN y - 1 ELSE y
        era == yy \div 400
        yoe == yy - era * 400
        mp  == IF m > 2 THEN m - 3 ELSE m + 9
        doy == (153 * mp + 2) \div 5 + d - 1
        doe == yoe * 365 + yoe \div 4 - yoe \div 100 + doy
    IN  era * 146097 + doe - 719468

DaysInMonth(y, m) ==
    IF m = 2 THEN (IF y % 4 = 0 /\ (y % 100 # 0 \/ y % 400 = 0) THEN 29 ELSE 28)
    ELSE IF m \in {4, 6, 9, 11} THEN 30 ELSE 31

\* the arguments datetime(...) accepts without ValueError
ValidPyDateTime(dt) ==
    /\ dt.year \in 1..9999 /\ dt.month \in 1..12
    /\ dt.day \in 1..DaysInMonth(dt.year, dt.month)
    /\ dt.hour \in 0..23 /\ dt.minute \in 0..59 /\ dt.second \in 0..59
    /\ dt.microsecond \in 0..999999

\* the days of datetime.min and datetime.max, counted from 1970-01-01
MinDay == DaysFromCivil(1, 1, 1)
MaxDay == DaysFromCivil(9999, 12, 31)

\* the magnitude (days * 86400 + seconds) * 10^6 + micros
MicrosOf(days, seconds, micros) ==
    MagAdd(MagMulSmall(MagAdd(MagMulSmall(NatDigits(days), 86400), NatDigits(seconds)),
                       1000000),
           NatDigits(micros))

\* int(delta.total_seconds() * 1_000_000) for a timedelta of u microseconds,
\* u a magnitude: total_seconds() is the double nearest to u / 10^6, the
\* product with 10^6 is rounded to a double again, and int() truncates.
\* Whole seconds below 2^53 microseconds pass both steps unchanged.
TruncatedMicros(u) ==
    IF IsZeroMag(u) THEN <<0>>
    ELSE IF Len(u) > 6 /\ MagLess(u, Two53) /\ \A i \in 0..5 : u[Len(u) - i] = 0 THEN u
    ELSE Only({IntOfDouble(p) :
                p \in {TimesUnits(f, 1000000, 1) : f \in {RoundToDouble(StripZeros(u), 6)}}})

\* utc_dt - epoch for the UTC day and second of the day, as utc_micros: a
\* timedelta before the epoch is the magnitude of its negative
EpochMicros(day, second, micros) ==
    MkInt(day < 0,
          TruncatedMicros(IF day >= 0 THEN MicrosOf(day, second, micros)
                          ELSE IF micros = 0 THEN MicrosOf(-day - 1, 86400 - second, 0)
                          ELSE MicrosOf(-day - 1, 86399 - second, 1000000 - micros)))

\* the UTC time of day in seconds, counted from the start of the date the
\* datetime holds: below 0 or beyond a day when the UTC date is another
UtcSecond(dt, tz_offset_minutes) ==
    dt.hour * 3600 + dt.minute * 60 + dt.second - tz_offset_minutes * 60

\* _datetime_to_epoch: (utc_micros, tz_offset_minutes) or None.  timezone()
\* takes an offset within a day; astimezone(timezone.utc) returns the
\* datetime itself when its zone is UTC already and else moves it by the
\* offset, which raises when the result leaves the years 1 to 9999.
_datetime_to_epoch(dt) ==
    IF ~ValidPyDateTime(dt) THEN None
    ELSE Only({IF tz_offset_minutes <= -1440 \/ tz_offset_minutes >= 1440 THEN None
               ELSE Only({IF tz_offset_minutes # 0 /\ (day < MinDay \/ day > MaxDay)
                          THEN None
                          ELSE [utc_micros |-> EpochMicros(day, second, dt.microsecond),
                                tz_offset |-> IntOf(tz_offset_minutes)] :
                            \* the UTC day and the second of that day
                            day \in {DaysFromCivil(dt.year, dt.month, dt.day)
                                       + UtcSecond(dt, tz_offset_minutes) \div 86400},
                            second \in {UtcSecond(dt, tz_offset_minutes) % 86400}}) :
                 tz_offset_minutes \in {IF dt.tzinfo # None THEN dt.tzinfo.offset ELSE 0}})

\* A day-time duration literal as the corpus writes it: the sign, P when
\* startsP, the D component, T when hasT, and the H, M and S components; a
\* component is the text of its number (Num) or <<>> when it is missing
Num(ip, fp) == DigitStr(ip) \o (IF fp = <<>> THEN <<>> ELSE <<".">> \o DigitStr(fp))
Component(num, unit) == IF num = <<>> THEN <<>> ELSE num \o <<unit>>
DurationText(neg, startsP, d, hasT, h, mi, sec) ==
    Sign(neg) \o (IF startsP THEN <<"P">> ELSE <<>>) \o Component(d, "D")
      \o (IF hasT THEN <<"T">> ELSE <<>>)
      \o Component(h, "H") \o Component(mi, "M") \o Component(sec, "S")

\* xs:dayTimeDuration\s*\(['\"]([^'\"]+)['\"]\) and (\d+(?:\.\d+)?)D, ..H, ..M, ..S
DurationWrapper ==
    <<Lit("xs:dayTimeDuration"), Star(SpaceClass), Lit("("), One(Quotes),
      Open(1), Plus(NotClass({"'", "\""})), Close(1), One(Quotes), Lit(")")>>
ComponentPattern(unit) ==
    <<Open(1), Plus(DigitClass), Maybe(<<Lit("."), Plus(DigitClass)>>), Close(1), Lit(unit)>>

\* the components in the order the source reads them: the part of the text
\* it searches (1 the date part, 2 the time part), the pattern, and the
\* microseconds of one unit as unit1 * unit2
DurationComponents ==
    <<[part |-> 1, pattern |-> ComponentPattern("D"), unit1 |-> 86400, unit2 |-> 1000000],
      [part |-> 2, pattern |-> ComponentPattern("H"), unit1 |-> 3600, unit2 |-> 1000000],
      [part |-> 2, pattern |-> ComponentPattern("M"), unit1 |-> 60, unit2 |-> 1000000],
      [part |-> 2, pattern |-> ComponentPattern("S"), unit1 |-> 1, unit2 |-> 1000000]>>

\* int(f * (unit1 * unit2)): the product is rounded to a double; Raises
\* (OverflowError) when it is an infinity
ProductMicros(f, unit1, unit2) ==
    IF f = Raises \/ f.cls = "inf" THEN Raises
    ELSE IF FloatIsZero(f) THEN MkInt(FALSE, <<0>>)
    ELSE Only({IF p.e > 971 \/ (p.e = 971 /\ p.m = Two53) THEN Raises
               ELSE MkInt(FALSE, IntOfDouble(p)) :
                 \* a whole number is multiplied as it is
                 p \in {TimesUnits(IF f.e > 0 /\ f.e < 53
                                    THEN Binary(MagMulPow2(MagOf(f), f.e), 0)
                                    ELSE Binary(MagOf(f), f.e),
                                    unit1, unit2)}})

\* what one component adds to total_micros: nothing when its part of the
\* text is empty or holds no match of the pattern
ComponentMicros(part, c) ==
    IF part = <<>> THEN MkInt(FALSE, <<0>>)
    ELSE Only({IF m = None THEN MkInt(FALSE, <<0>>)
               ELSE ProductMicros(float(group(part, m, 1)), c.unit1, c.unit2) :
                 m \in {re_search(c.pattern, part)}})

\* value.split('T', 1): the text before the first T and the text after it
SplitAtT(value) ==
    IF \E i \in 1..Len(value) : value[i] = "T"
    THEN Only({<<SubSeq(value, 1, i - 1), SubSeq(value, i + 1, Len(value))>> :
                i \in {CHOOSE i \in 1..Len(value) :
                          value[i] = "T" /\ \A k \in 1..(i - 1) : value[k] # "T"}})
    ELSE <<value, <<>>>>

\* the sum of the components with its sign; Raises when one of them raised
TotalMicros(negative, micros) ==
    IF \E j \in 1..Len(micros) : micros[j] = Raises THEN Raises
    ELSE MkInt(negative, MagAdd(MagAdd(micros[1].mag, micros[2].mag),
                                MagAdd(micros[3].mag, micros[4].mag)))

\* parse_duration: microseconds (signed), or None; Raises when int() of a
\* product raises OverflowError
parse_duration(value) ==
    Only({Only({IF At(v, n + 1) # "P" THEN None
                ELSE Only({TotalMicros(n = 1,
                                       [j \in 1..4 |->
                                          ComponentMicros(parts[DurationComponents[j].part],
                                                          DurationComponents[j])]) :
                            parts \in {SplitAtT(SubSeq(v, n + 2, Len(v)))}}) :
                  \* the sign, then P
                  n \in {IF At(v, 1) = "-" THEN 1 ELSE 0}}) :
            v \in {Only({IF m # None THEN group(s, m, 1) ELSE s :
                           m \in {re_match(DurationWrapper, s)}}) :
                     s \in {strip(value)}}})


----------------------------------------------------------------------------
(* Operation tables *)

FUNCTION_MAP ==
    [f \in {"fn:abs"} |-> "abs_int"] @@
    ("fn:ceiling" :> "ceil_int") @@ ("fn:floor" :> "floor_int") @@
    ("fn:round" :> "round_int") @@
    ("fn:round-float" :> "round_float") @@ ("fn:ceiling-float" :> "ceil_float") @@
    ("fn:floor-float" :> "floor_float") @@
    ("fn:round-double" :> "round_double") @@ ("fn:ceiling-double" :> "ceil_double") @@
    ("fn:floor-double" :> "floor_double") @@
    ("op:numeric-add" :> "numeric_add_int") @@
    ("op:numeric-subtract" :> "numeric_subtract_int") @@
    ("op:numeric-multiply" :> "numeric_multiply_int") @@
    ("op:numeric-divide" :> "numeric_divide_int") @@
    ("op:numeric-integer-divide" :> "numeric_divide_int") @@
    ("op:numeric-mod" :> "numeric_mod_int") @@
    ("op:numeric-equal" :> "numeric_equal_int") @@
    ("op:numeric-less-than" :> "numeric_less_than_int") @@
    ("op:numeric-greater-than" :> "numeric_greater_than_int") @@
    ("op:numeric-add-float" :> "numeric_add_float") @@
    ("op:numeric-subtract-float" :> "numeric_subtract_float") @@
    ("op:numeric-multiply-float" :> "numeric_multiply_float") @@
    ("op:numeric-divide-float" :> "numeric_divide_float") @@
    ("op:numeric-equal-float" :> "numeric_equal_float") @@
    ("op:numeric-less-than-float" :> "numeric_less_than_float") @@
    ("op:numeric-greater-than-float" :> "numeric_greater_than_float") @@
    ("op:numeric-add-double" :> "numeric_add_double") @@
    ("op:numeric-subtract-double" :> "numeric_subtract_double") @@
    ("op:numeric-multiply-double" :> "numeric_multiply_double") @@
    ("op:numeric-divide-double" :> "numeric_divide_double") @@
    ("op:numeric-equal-double" :> "numeric_equal_double") @@
    ("op:numeric-less-than-double" :> "numeric_less_than_double") @@
    ("op:numeric-greater-than-double" :> "numeric_greater_than_double") @@
    ("xs:float-from-int" :> "cast_integer_to_float") @@
    ("xs:double-from-int" :> "cast_integer_to_double") @@
    ("xs:integer-from-float" :> "cast_float_to_integer") @@
    ("xs:integer-from-double" :> "cast_double_to_integer") @@
    ("xs:float-from-double" :> "cast_double_to_float") @@
    ("fn:year-from-dateTime" :> "year_from_datetime") @@
    ("fn:month-from-dateTime" :> "month_from_datetime") @@
    ("fn:day-from-dateTime" :> "day_from_datetime") @@
    ("fn:hours-from-dateTime" :> "hours_from_datetime") @@
    ("fn:minutes-from-dateTime" :> "minutes_from_datetime") @@
    ("fn:seconds-from-dateTime" :> "seconds_from_datetime") @@
    ("fn:timezone-from-dateTime" :> "timezone_from_datetime") @@
    ("op:dateTime-equal" :> "datetime_equal") @@
    ("op:dateTime-less-than" :> "datetime_less_than") @@
    ("op:dateTime-greater-than" :> "datetime_greater_than") @@
    ("fn:not" :> "fn_not") @@
    ("op:boolean-equal" :> "boolean_equal") @@
    ("op:boolean-less-than" :> "boolean_less_than") @@
    ("op:boolean-greater-than" :> "boolean_greater_than") @@
    ("fn:days-from-duration" :> "days_from_duration") @@
    ("fn:hours-from-duration" :> "hours_from_duration") @@
    ("fn:minutes-from-duration" :> "minutes_from_duration") @@
    ("fn:seconds-from-duration" :> "seconds_from_duration") @@
    ("op:add-dayTimeDuration-to-dateTime" :> "datetime_add_duration") @@
    ("op:subtract-dayTimeDuration-from-dateTime" :> "datetime_subtract_duration") @@
    ("op:subtract-dateTimes" :> "datetime_difference") @@
    ("op:add-dayTimeDurations" :> "duration_add") @@
    ("op:subtract-dayTimeDurations" :> "duration_subtract") @@
    ("op:dayTimeDuration-equal" :> "duration_equal") @@
    ("op:dayTimeDuration-less-than" :> "duration_less_than") @@
    ("op:dayTimeDuration-greater-than" :> "duration_greater_than") @@
    ("op:numeric-unary-plus" :> "numeric_unary_plus_int") @@
    ("op:numeric-unary-minus" :> "numeric_unary_minus_int") @@
    ("fn:string-length" :> "string_length") @@
    ("fn:starts-with" :> "starts_with") @@
    ("fn:ends-with" :> "ends_with") @@
    ("fn:contains" :> "contains")

FLOAT_FUNCTION_TYPES ==
    [f \in {"op:numeric-add-float", "op:numeric-subtract-float",
            "op:numeric-multiply-float", "op:numeric-divide-float",
            "op:numeric-equal-float", "op:numeric-less-than-float",
            "op:numeric-greater-than-float", "fn:round-float",
            "fn:ceiling-float", "fn:floor-float"} |-> "float"] @@
    [f \in {"op:numeric-add-double", "op:numeric-subtract-double",
            "op:numeric-multiply-double", "op:numeric-divide-double",
            "op:numeric-equal-double", "op:numeric-less-than-double",
            "op:numeric-greater-than-double", "fn:round-double",
            "fn:ceiling-double", "fn:floor-double"} |-> "double"]

\* (source_type, target_type)
CAST_FUNCTION_PATTERNS ==
    ("xs:float-from-int" :> <<"int", "float">>) @@
    ("xs:double-from-int" :> <<"int", "double">>) @@
    ("xs:integer-from-float" :> <<"float", "int">>) @@
    ("xs:integer-from-double" :> <<"double", "int">>) @@
    ("xs:float-from-double" :> <<"double", "float">>)

IMPLEMENTED_FUNCTIONS == DOMAIN FUNCTION_MAP

----------------------------------------------------------------------------
(* Token trees.  A token has the parser's symbol, its own literal value      *)
(* (the name of a "(name)" token, else ""), the content of a string or      *)
(* numeric literal (lit, else <<>>), its children, and the value evaluate() *)
(* returns for it (Raises when it throws).                                  *)

Token(symbol, value, lit, children, evaluate) ==
    [symbol |-> symbol, value |-> value, lit |-> lit, children |-> children,
     evaluate |-> evaluate]

\* len(token) and token[i] (0-based in the source)
TokLen(token) == Len(token.children)
Child(token, i) == token.children[i + 1]

\* 'xs:decimal', 'xs:integer', 'xs:int', 'xs:long'
IntegerTypeNames ==
    {Chars("xs:decimal"), Chars("xs:integer"), Chars("xs:int"), Chars("xs:long")}

\* \d+[eE][+-]?\d+ and \d+\.\d+
ExponentForm ==
    <<Plus(DigitClass), One(Class({"e", "E"})), Opt(Signs), Plus(DigitClass)>>
DecimalForm == <<Plus(DigitClass), Lit("."), Plus(DigitClass)>>

\* detect_operand_type(expr) for the text of an expression
detect_operand_type(expr) ==
    Only({IF Contains(e, Chars("xs:float")) THEN "float"
          ELSE IF Contains(e, Chars("xs:double")) THEN "double"
          ELSE IF \E name \in IntegerTypeNames : Contains(e, name) THEN "int"
          ELSE IF re_search(ExponentForm, e) # None \/ re_search(DecimalForm, e) # None
          THEN "double"
          ELSE "int" :
            e \in {strip(expr)}})

_get_function_name(token) ==
    IF token.symbol = ":" /\ TokLen(token) >= 2 THEN Child(token, 1).symbol
    ELSE token.symbol

DirectChildren(token) == token.children
_get_function_args(token) ==
    IF token.symbol = ":" /\ TokLen(token) >= 2 THEN Child(token, 1).children
    ELSE token.children

----------------------------------------------------------------------------
(* convert_xpath_expr.  A translation record is (setup_code, test_expression,*)
(* embedded_expected): the setup statements "let var = ctor(args);", the     *)
(* call "fn(args)", and the embedded expected value.  Each handler below is  *)
(* one "if" block of the function, in source order; Fall says that control  *)
(* leaves the block without returning.                                      *)

Fall == [k |-> "fall"]

IntArg(i)  == [t |-> "int", v |-> i]
BoolArg(b) == [t |-> "bool", v |-> b]
VarArg(n)  == [t |-> "var", v |-> n]

Let(var, ctor, args) == [var |-> var, ctor |-> ctor, args |-> args]

Conversion(setup, fn, args) ==
    [setup |-> setup, call |-> [fn |-> fn, args |-> args], embedded_expected |-> None]

DtLet(var, result) ==
    Let(var, "datetime_from_epoch_microseconds_with_tz",
        <<result.utc_micros, result.tz_offset>>)

DurLet(var, micros) == Let(var, "duration_from_microseconds", <<micros>>)

\* the string a constructor token wraps, evaluated and parsed as a duration:
\* None when it is no string or no duration, Raises when evaluation throws
DurationOfCtor(token) ==
    LET inner_args == _get_function_args(token)
    IN  IF Len(inner_args) < 1 THEN None
        ELSE LET duration_str == inner_args[1].evaluate
             IN  IF duration_str = Raises THEN Raises
                 ELSE IF duration_str.k # "str" THEN None
                 ELSE parse_duration(duration_str.s)

xpath_to_noir_dt_funcs ==
    ("year-from-dateTime" :> "year_from_datetime") @@
    ("month-from-dateTime" :> "month_from_datetime") @@
    ("day-from-dateTime" :> "day_from_datetime") @@
    ("hours-from-dateTime" :> "hours_from_datetime") @@
    ("minutes-from-dateTime" :> "minutes_from_datetime") @@
    ("seconds-from-dateTime" :> "seconds_from_datetime")

\* one dateTime argument to "let dt = ..." and the call noir_func(dt)
\* a generator that never looks at the sign of the epoch microseconds
NoPreEpochCheck(utc_micros) == FALSE

\* "utc_micros < 0": the dateTime lies before 1970-01-01T00:00:00Z
PreEpoch(utc_micros) == IntIsNegative(utc_micros)

DateTimeArgCall(args, noir_func) ==
    IF Len(args) < 1 THEN None
    ELSE LET dt_val == args[1].evaluate
         IN  IF dt_val = Raises \/ dt_val.k # "DateTime10" THEN None
             ELSE LET result == _datetime_to_epoch(dt_val)
                  IN  IF result = None THEN None
                      ELSE IF PreEpoch(result.utc_micros) THEN None
                      ELSE Conversion(<<DtLet("dt", result)>>, noir_func, <<VarArg("dt")>>)

HandleDateTimeComponent(token, symbol, noir_func) ==
    IF symbol \notin DOMAIN xpath_to_noir_dt_funcs THEN Fall
    ELSE IF xpath_to_noir_dt_funcs[symbol] # noir_func THEN None
    ELSE DateTimeArgCall(_get_function_args(token), noir_func)

xpath_to_noir_dur_funcs ==
    ("days-from-duration" :> "days_from_duration") @@
    ("hours-from-duration" :> "hours_from_duration") @@
    ("minutes-from-duration" :> "minutes_from_duration") @@
    ("seconds-from-duration" :> "seconds_from_duration")

HandleDurationComponent(token, symbol, noir_func) ==
    IF symbol \notin DOMAIN xpath_to_noir_dur_funcs THEN Fall
    ELSE IF xpath_to_noir_dur_funcs[symbol] # noir_func THEN None
    ELSE LET args == _get_function_args(token)
         IN  IF Len(args) < 1 THEN None
             ELSE IF _get_function_name(args[1]) # "dayTimeDuration" THEN None
             ELSE Only({IF micros = Raises \/ micros = None THEN None
                        ELSE IF ~_fits_in_i64(micros) THEN None
                        ELSE Conversion(<<DurLet("dur", micros)>>, noir_func,
                                        <<VarArg("dur")>>) :
                        micros \in {DurationOfCtor(args[1])}})

CmpSymbols == {"eq", "lt", "gt", "=", "<", ">"}

duration_cmp_map ==
    [y \in {"eq", "="} |-> "duration_equal"] @@
    [y \in {"lt", "<"} |-> "duration_less_than"] @@
    [y \in {"gt", ">"} |-> "duration_greater_than"]

\* two duration constructors to "let dur1 = ..; let dur2 = .." and the call
TwoDurations(token, noir_func) ==
    Only({IF micros1 = Raises \/ micros1 = None THEN Fall
          ELSE IF micros2 = Raises \/ micros2 = None THEN Fall
          ELSE IF ~(_fits_in_i64(micros1) /\ _fits_in_i64(micros2)) THEN Fall
          ELSE Conversion(<<DurLet("dur1", micros1), DurLet("dur2", micros2)>>,
                          noir_func, <<VarArg("dur1"), VarArg("dur2")>>) :
          micros1 \in {DurationOfCtor(Child(token, 0))},
          micros2 \in {DurationOfCtor(Child(token, 1))}})

HandleDurationComparison(token, symbol, noir_func) ==
    IF symbol \notin CmpSymbols THEN Fall
    ELSE IF ~(duration_cmp_map[symbol] = noir_func /\ TokLen(token) >= 2) THEN Fall
    ELSE IF ~(_get_function_name(Child(token, 0)) = "dayTimeDuration"
              /\ _get_function_name(Child(token, 1)) = "dayTimeDuration") THEN Fall
    ELSE TwoDurations(token, noir_func)

\* "let dt = ..; let dur = .." and the call, for dateTime +/- duration
DateTimeAndDuration(token, noir_func) ==
    LET dt_val == Child(token, 0).evaluate
    IN  Only({IF dt_val = Raises \/ dt_val.k # "DateTime10" THEN Fall
              ELSE IF micros_dur = Raises \/ micros_dur = None THEN Fall
              ELSE LET result == _datetime_to_epoch(dt_val)
                   IN  IF result = None THEN Fall
                       ELSE IF ~PreEpoch(result.utc_micros) /\ _fits_in_i64(micros_dur)
                            THEN Conversion(<<DtLet("dt", result),
                                              DurLet("dur", micros_dur)>>,
                                            noir_func, <<VarArg("dt"), VarArg("dur")>>)
                       ELSE Fall :
              micros_dur \in {DurationOfCtor(Child(token, 1))}})

\* "let dt1 = ..; let dt2 = .." for two dateTime operands; pre_epoch is what
\* the block does with an operand before 1970
TwoDateTimes(token, noir_func, pre_epoch) ==
    LET dt1 == Child(token, 0).evaluate
        dt2 == Child(token, 1).evaluate
    IN  IF dt1 = Raises \/ dt2 = Raises THEN Fall
        ELSE IF ~(dt1.k = "DateTime10" /\ dt2.k = "DateTime10") THEN Fall
        ELSE LET result1 == _datetime_to_epoch(dt1)
                 result2 == _datetime_to_epoch(dt2)
             IN  IF result1 = None \/ result2 = None THEN Fall
                 ELSE IF PreEpoch(result1.utc_micros)
                           \/ PreEpoch(result2.utc_micros) THEN pre_epoch
                 ELSE Conversion(<<DtLet("dt1", result1), DtLet("dt2", result2)>>,
                                 noir_func, <<VarArg("dt1"), VarArg("dt2")>>)

HandleDurationArithmetic(token, symbol, noir_func) ==
    IF symbol \notin {"+", "-"} THEN Fall
    ELSE IF TokLen(token) < 2 THEN Fall
    ELSE
    LET arg1_symbol == _get_function_name(Child(token, 0))
        arg2_symbol == _get_function_name(Child(token, 1))
    IN  IF arg1_symbol = "dayTimeDuration" /\ arg2_symbol = "dayTimeDuration" THEN
            IF symbol = "+" /\ noir_func = "duration_add" THEN TwoDurations(token, noir_func)
            ELSE IF symbol = "-" /\ noir_func = "duration_subtract"
                 THEN TwoDurations(token, noir_func)
            ELSE Fall
        ELSE IF arg1_symbol = "dateTime" /\ arg2_symbol = "dayTimeDuration" THEN
            IF symbol = "+" /\ noir_func = "datetime_add_duration"
            THEN DateTimeAndDuration(token, noir_func)
            ELSE Fall
        \* the source repeats the condition of the branch above for "-"
        ELSE IF arg1_symbol = "dateTime" /\ arg2_symbol = "dayTimeDuration" THEN
            IF symbol = "-" /\ noir_func = "datetime_subtract_duration"
            THEN DateTimeAndDuration(token, noir_func)
            ELSE Fall
        ELSE IF arg1_symbol = "dateTime" /\ arg2_symbol = "dateTime" THEN
            IF symbol = "-" /\ noir_func = "datetime_difference"
            THEN TwoDateTimes(token, noir_func, Fall)
            ELSE Fall
        ELSE Fall

op_map ==
    [y \in {"eq", "="} |-> "datetime_equal"] @@
    [y \in {"lt", "<"} |-> "datetime_less_than"] @@
    [y \in {"gt", ">"} |-> "datetime_greater_than"]

HandleDateTimeComparison(token, symbol, noir_func) ==
    IF symbol \notin CmpSymbols THEN Fall
    ELSE IF ~(op_map[symbol] = noir_func /\ TokLen(token) >= 2) THEN Fall
    ELSE TwoDateTimes(token, noir_func, None)

HandleNot(token, symbol, noir_func) ==
    IF ~(symbol = "not" /\ noir_func = "fn_not") THEN Fall
    ELSE LET args == _get_function_args(token)
         IN  IF Len(args) < 1 THEN None
             ELSE LET arg_val == args[1].evaluate
                  IN  IF arg_val # Raises /\ arg_val.k = "bool"
                      THEN Conversion(<<>>, "fn_not", <<BoolArg(arg_val.b)>>)
                      ELSE None

\* two numeric operands truncated by int() to the call fn(a_int, b_int)
IntBinaryCall(token, fn) ==
    IF TokLen(token) < 2 THEN None
    ELSE LET a == Child(token, 0).evaluate
             b == Child(token, 1).evaluate
         IN  IF a = Raises \/ b = Raises THEN None
             ELSE IF ~(IsNumber(a) /\ IsNumber(b)) THEN None
             ELSE LET a_int == PyInt(a)
                      b_int == PyInt(b)
                  IN  IF a_int = Raises \/ b_int = Raises THEN None
                      ELSE IF ~_fits_in_i64(a_int) \/ ~_fits_in_i64(b_int) THEN None
                      ELSE Conversion(<<>>, fn, <<IntArg(a_int), IntArg(b_int)>>)

HandleMod(token, symbol, noir_func) ==
    IF ~(symbol = "mod" /\ noir_func = "numeric_mod_int") THEN Fall
    ELSE IntBinaryCall(token, "numeric_mod_int")

\* no primitive taken for a 32-bit one
EndsWithFloatNever(noir_func) == FALSE

\* noir_func.endswith('_float')
EndsWithFloat(noir_func) ==
    noir_func \in {"numeric_add_float", "numeric_subtract_float",
                   "numeric_multiply_float", "numeric_divide_float",
                   "numeric_equal_float", "numeric_less_than_float",
                   "numeric_greater_than_float", "round_float", "ceil_float",
                   "floor_float", "cast_integer_to_float", "cast_double_to_float"}

\* "let var = XsdFloat::from_bits(bits);" or the XsdDouble form for the
\* float f; Raises when float(..) raised (f is Raises) or packing throws
BitsLet(var, f, is_float32) ==
    IF f = Raises THEN Raises
    ELSE IF is_float32 THEN
        (IF float_to_bits(f) = Raises THEN Raises
         ELSE Let(var, "XsdFloat::from_bits", <<float_to_bits(f)>>))
    ELSE Let(var, "XsdDouble::from_bits", <<double_to_bits(f)>>)

\* two numeric operands to "let a = ..; let b = .." and the call fn(a, b)
FloatBinaryCall(token, noir_func) ==
    IF TokLen(token) < 2 THEN None
    ELSE LET a == Child(token, 0).evaluate
             b == Child(token, 1).evaluate
         IN  IF a = Raises \/ b = Raises THEN None
             ELSE IF ~(IsNumber(a) /\ IsNumber(b)) THEN None
             ELSE LET is_float32 == EndsWithFloat(noir_func)
                      la == BitsLet("a", PyFloat(a), is_float32)
                      lb == BitsLet("b", PyFloat(b), is_float32)
                  IN  IF la = Raises \/ lb = Raises THEN None
                      ELSE Conversion(<<la, lb>>, noir_func, <<VarArg("a"), VarArg("b")>>)

float_ops ==
    ("+" :> {"numeric_add_float", "numeric_add_double"}) @@
    ("-" :> {"numeric_subtract_float", "numeric_subtract_double"}) @@
    ("*" :> {"numeric_multiply_float", "numeric_multiply_double"}) @@
    ("div" :> {"numeric_divide_float", "numeric_divide_double"})

HandleFloatArithmetic(token, symbol, noir_func) ==
    IF ~(symbol \in DOMAIN float_ops /\ noir_func \in float_ops[symbol]) THEN Fall
    ELSE FloatBinaryCall(token, noir_func)

float_cmp_ops ==
    [y \in {"eq", "="} |-> {"numeric_equal_float", "numeric_equal_double"}] @@
    [y \in {"lt", "<"} |-> {"numeric_less_than_float", "numeric_less_than_double"}] @@
    [y \in {"gt", ">"} |-> {"numeric_greater_than_float", "numeric_greater_than_double"}]

HandleFloatComparison(token, symbol, noir_func) ==
    IF ~(symbol \in DOMAIN float_cmp_ops /\ noir_func \in float_cmp_ops[symbol]) THEN Fall
    ELSE FloatBinaryCall(token, noir_func)

\* a table whose "+" and "-" entries are exchanged
numeric_ops_exchanged ==
    ("+" :> "numeric_subtract_int") @@ ("-" :> "numeric_add_int") @@
    ("*" :> "numeric_multiply_int") @@ ("div" :> "numeric_divide_int") @@
    ("idiv" :> "numeric_divide_int")

numeric_ops ==
    ("+" :> "numeric_add_int") @@ ("-" :> "numeric_subtract_int") @@
    ("*" :> "numeric_multiply_int") @@ ("div" :> "numeric_divide_int") @@
    ("idiv" :> "numeric_divide_int")

HandleIntArithmetic(token, symbol, noir_func) ==
    IF ~(symbol \in DOMAIN numeric_ops /\ numeric_ops[symbol] = noir_func) THEN Fall
    ELSE IntBinaryCall(token, noir_func)

\* one numeric operand truncated by int() to the call fn(val_int)
IntUnaryCall(args, fn) ==
    IF Len(args) < 1 THEN None
    ELSE LET arg_val == args[1].evaluate
         IN  IF arg_val = Raises THEN None
             ELSE IF ~IsNumber(arg_val) THEN None
             ELSE LET val_int == PyInt(arg_val)
                  IN  IF val_int = Raises THEN None
                      ELSE IF ~_fits_in_i64(val_int) THEN None
                      ELSE Conversion(<<>>, fn, <<IntArg(val_int)>>)

\* fn:abs, fn:ceiling, fn:floor, fn:round on integers
int_unary_funcs ==
    ("abs" :> "abs_int") @@ ("ceiling" :> "ceil_int") @@
    ("floor" :> "floor_int") @@ ("round" :> "round_int")

HandleIntUnaryFunction(token, symbol, noir_func) ==
    IF ~(symbol \in DOMAIN int_unary_funcs /\ int_unary_funcs[symbol] = noir_func) THEN Fall
    ELSE IntUnaryCall(_get_function_args(token), noir_func)

\* fn:round, fn:ceiling, fn:floor on float and double
float_unary_funcs ==
    ("round" :> {"round_float", "round_double"}) @@
    ("ceiling" :> {"ceil_float", "ceil_double"}) @@
    ("floor" :> {"floor_float", "floor_double"})

HandleFloatUnaryFunction(token, symbol, noir_func) ==
    IF ~(symbol \in DOMAIN float_unary_funcs /\ noir_func \in float_unary_funcs[symbol])
    THEN Fall
    ELSE LET args == _get_function_args(token)
         IN  IF Len(args) < 1 THEN None
             ELSE LET arg_val == args[1].evaluate
                  IN  IF arg_val = Raises THEN None
                      ELSE IF ~IsNumber(arg_val) THEN None
                      ELSE LET lv == BitsLet("val", PyFloat(arg_val), EndsWithFloat(noir_func))
                           IN  IF lv = Raises THEN None
                               ELSE Conversion(<<lv>>, noir_func, <<VarArg("val")>>)

HandleUnaryPlus(token, symbol, noir_func) ==
    IF ~(symbol = "+" /\ noir_func = "numeric_unary_plus_int") THEN Fall
    ELSE IF TokLen(token) >= 1 THEN IntUnaryCall(token.children, "numeric_unary_plus_int")
    ELSE None

HandleUnaryMinus(token, symbol, noir_func) ==
    IF ~(symbol = "-" /\ noir_func = "numeric_unary_minus_int") THEN Fall
    ELSE IF TokLen(token) = 1 THEN IntUnaryCall(token.children, "numeric_unary_minus_int")
    ELSE None

int_cmp_ops ==
    [y \in {"eq", "="} |-> "numeric_equal_int"] @@
    [y \in {"lt", "<"} |-> "numeric_less_than_int"] @@
    [y \in {"gt", ">"} |-> "numeric_greater_than_int"]

HandleIntComparison(token, symbol, noir_func) ==
    IF ~(symbol \in DOMAIN int_cmp_ops /\ int_cmp_ops[symbol] = noir_func) THEN Fall
    ELSE IntBinaryCall(token, noir_func)

\* two boolean operands to the call fn(a, b)
BoolBinaryCall(token, fn) ==
    IF TokLen(token) < 2 THEN None
    ELSE LET a == Child(token, 0).evaluate
             b == Child(token, 1).evaluate
         IN  IF a = Raises \/ b = Raises THEN None
             ELSE IF a.k = "bool" /\ b.k = "bool"
                  THEN Conversion(<<>>, fn, <<BoolArg(a.b), BoolArg(b.b)>>)
             ELSE None

HandleBooleanEqual(token, symbol, noir_func) ==
    IF ~(symbol \in {"eq", "="} /\ noir_func = "boolean_equal") THEN Fall
    ELSE BoolBinaryCall(token, "boolean_equal")

bool_cmp_ops ==
    [y \in {"lt", "<"} |-> "boolean_less_than"] @@
    [y \in {"gt", ">"} |-> "boolean_greater_than"]

HandleBooleanComparison(token, symbol, noir_func) ==
    IF ~(symbol \in DOMAIN bool_cmp_ops /\ bool_cmp_ops[symbol] = noir_func) THEN Fall
    ELSE BoolBinaryCall(token, noir_func)

HandleTimezone(token, symbol, noir_func) ==
    IF ~(symbol = "timezone-from-dateTime" /\ noir_func = "timezone_from_datetime")
    THEN Fall
    ELSE DateTimeArgCall(_get_function_args(token), noir_func)

target_type_names == ("float" :> "float") @@ ("double" :> "double") @@ ("int" :> "integer")

\* the i8 range accepted for casts of an integer to float or double
I8_MIN == -128
I8_MAX == 127

\* a range check that lets 128 through
OutsideI8OffByOne(val_int) ==
    IntLess(val_int, IntOf(I8_MIN)) \/ IntLess(IntOf(I8_MAX + 1), val_int)

\* val_int < -128 or val_int > 127
OutsideI8(val_int) == IntLess(val_int, IntOf(I8_MIN)) \/ IntLess(IntOf(I8_MAX), val_int)

\* "expr cast as xs:type"
HandleCastAs(token, noir_func, source_type, expected_target) ==
    LET source_token == Child(token, 0)
        target_token == Child(token, 1)
    IN  IF ~(target_token.symbol = ":" /\ TokLen(target_token) >= 2) THEN None
        ELSE
        LET actual_target == Child(target_token, 1).value
            source_symbol == _get_function_name(source_token)
            source_val    == source_token.evaluate
        IN  IF actual_target # expected_target THEN None
            ELSE IF source_val = Raises THEN None
            ELSE IF source_type = "int" THEN
                IF source_symbol = "decimal" THEN None
                ELSE IF source_symbol = "integer" \/ IsInt(source_val) THEN
                    (IF ~IsNumber(source_val) \/ PyInt(source_val) = Raises THEN None
                     ELSE IF OutsideI8(PyInt(source_val)) THEN None
                     ELSE Conversion(<<>>, noir_func, <<IntArg(PyInt(source_val))>>))
                ELSE None
            ELSE IF source_type = "float" THEN
                IF source_symbol = "float" /\ IsNumber(source_val) THEN
                    Only({IF l = Raises THEN None
                          ELSE Conversion(<<l>>, noir_func, <<VarArg("f")>>) :
                            l \in {BitsLet("f", PyFloat(source_val), TRUE)}})
                ELSE None
            ELSE IF source_type = "double" THEN
                IF source_symbol = "double" /\ IsNumber(source_val) THEN
                    Only({IF l = Raises THEN None
                          ELSE Conversion(<<l>>, noir_func, <<VarArg("d")>>) :
                            l \in {BitsLet("d", PyFloat(source_val), FALSE)}})
                ELSE None
            ELSE None

\* constructor syntax: xs:float(integer_expr), xs:integer(xs:float(..)), ...
HandleConstructor(token, noir_func, source_type) ==
    LET args == _get_function_args(token)
    IN  IF Len(args) < 1 THEN None
        ELSE
        LET arg_token  == args[1]
            arg_symbol == _get_function_name(arg_token)
            inner_args == _get_function_args(arg_token)
        IN  IF source_type = "int" THEN
                LET arg_val == arg_token.evaluate
                IN  IF arg_val = Raises THEN None
                    ELSE IF arg_val.k \in {"int", "bool", "Decimal"} THEN
                        (IF OutsideI8(PyInt(arg_val)) THEN None
                         ELSE Conversion(<<>>, noir_func, <<IntArg(PyInt(arg_val))>>))
                    ELSE None
            ELSE IF source_type = "float" THEN
                IF arg_symbol = "float" /\ Len(inner_args) >= 1 THEN
                    LET inner_val == inner_args[1].evaluate
                    IN  IF inner_val = Raises THEN None
                        ELSE IF ~IsNumber(inner_val) THEN None
                        ELSE Only({IF l = Raises THEN None
                                   ELSE Conversion(<<l>>, noir_func, <<VarArg("f")>>) :
                                    l \in {BitsLet("f", PyFloat(inner_val), TRUE)}})
                ELSE None
            ELSE IF source_type = "double" THEN
                IF arg_symbol = "double" /\ Len(inner_args) >= 1 THEN
                    LET inner_val == inner_args[1].evaluate
                    IN  IF inner_val = Raises THEN None
                        ELSE IF ~IsNumber(inner_val) THEN None
                        ELSE Only({IF l = Raises THEN None
                                   ELSE Conversion(<<l>>, noir_func, <<VarArg("d")>>) :
                                    l \in {BitsLet("d", PyFloat(inner_val), FALSE)}})
                ELSE None
            ELSE None

HandleCast(token, symbol, noir_func, function_name_) ==
    IF function_name_ \notin DOMAIN CAST_FUNCTION_PATTERNS THEN Fall
    ELSE
    LET source_type     == CAST_FUNCTION_PATTERNS[function_name_][1]
        target_type     == CAST_FUNCTION_PATTERNS[function_name_][2]
        expected_target == target_type_names[target_type]
    IN  IF symbol = "cast" /\ TokLen(token) >= 2
        THEN HandleCastAs(token, noir_func, source_type, expected_target)
        ELSE IF symbol = expected_target
        THEN HandleConstructor(token, noir_func, source_type)
        ELSE None

\* the outcome of the first block that returns, among the outcomes of the
\* blocks in their order
FirstReturn(outcomes) ==
    outcomes[CHOOSE k \in 1..Len(outcomes) :
                (\A j \in 1..(k - 1) : outcomes[j] = Fall) /\ outcomes[k] # Fall]

\* the handlers in the order the function tries them; after the last block
\* the function returns None
Dispatch(token, symbol, noir_func, function_name_) ==
    FirstReturn(<<HandleDateTimeComponent(token, symbol, noir_func),
                  HandleDurationComponent(token, symbol, noir_func),
                  HandleDurationComparison(token, symbol, noir_func),
                  HandleDurationArithmetic(token, symbol, noir_func),
                  HandleDateTimeComparison(token, symbol, noir_func),
                  HandleNot(token, symbol, noir_func),
                  HandleMod(token, symbol, noir_func),
                  HandleFloatArithmetic(token, symbol, noir_func),
                  HandleFloatComparison(token, symbol, noir_func),
                  HandleIntArithmetic(token, symbol, noir_func),
                  HandleIntUnaryFunction(token, symbol, noir_func),
                  HandleFloatUnaryFunction(token, symbol, noir_func),
                  HandleUnaryPlus(token, symbol, noir_func),
                  HandleUnaryMinus(token, symbol, noir_func),
                  HandleIntComparison(token, symbol, noir_func),
                  HandleBooleanEqual(token, symbol, noir_func),
                  HandleBooleanComparison(token, symbol, noir_func),
                  HandleTimezone(token, symbol, noir_func),
                  HandleCast(token, symbol, noir_func, function_name_),
                  None>>)

\* a filter that checks only the operations that declare a variant
VariantMismatchDeclaredOnly(expr, function_name_) ==
    /\ function_name_ \notin DOMAIN CAST_FUNCTION_PATTERNS
    /\ function_name_ \in DOMAIN FLOAT_FUNCTION_TYPES
    /\ FLOAT_FUNCTION_TYPES[function_name_] # detect_operand_type(expr.text)

\* the variant filter at the head of convert_xpath_expr: TRUE when the
\* expression is rejected for the operation
VariantMismatch(expr, function_name_) ==
    LET is_cast_function == function_name_ \in DOMAIN CAST_FUNCTION_PATTERNS
        detected_type    == detect_operand_type(expr.text)
    IN  /\ ~is_cast_function
        /\ IF function_name_ \in DOMAIN FLOAT_FUNCTION_TYPES
           THEN FLOAT_FUNCTION_TYPES[function_name_] # detected_type
           ELSE detected_type \in {"float", "double"}

\* convert_xpath_expr(expr, function_name): a translation record or None
convert_xpath_expr(expr, function_name_) ==
    IF function_name_ \notin DOMAIN FUNCTION_MAP THEN None
    ELSE IF VariantMismatch(expr, function_name_) THEN None
    ELSE IF ~expr.parses THEN None
    ELSE Dispatch(expr.tree, _get_function_name(expr.tree),
                  FUNCTION_MAP[function_name_], function_name_)

----------------------------------------------------------------------------
(* Test cases and generate_noir_test *)

\* A corpus name is a sequence of characters.

RECURSIVE MapChars(_, _)
MapChars(name, step) ==
    IF name = <<>> THEN <<>>
    ELSE LET c == Head(name)
             rest == MapChars(Tail(name), step)
         IN  CASE step = "dash"   -> <<(IF c \in {"-", "."} THEN "_" ELSE c)>> \o rest
               [] step = "strip"  ->
                     (IF c \in LowerChars \cup UpperChars \cup DigitChars \cup {"_"}
                      THEN <<c>> ELSE <<>>) \o rest

sanitize_test_name(name) ==
    LET n1 == MapChars(name, "dash")
        n2 == MapChars(n1, "strip")
        n3 == IF n2 # <<>> /\ Head(n2) \in DigitChars
              THEN <<"t", "e", "s", "t", "_">> \o n2 ELSE n2
    IN  lower(n3)

\* TestCase.  A dependency is the text "type:value".
TestCase(name, description, test_expr, expected_result, result_type, dependencies) ==
    [name |-> name, description |-> description, test_expr |-> test_expr,
     expected_result |-> expected_result, result_type |-> result_type,
     dependencies |-> dependencies]

unsupported_deps == {"schemaValidation", "schemaImport", "staticTyping"}

\* a generator without the dependency check
NoDependencyCheck(t) == FALSE

HasUnsupportedDependency(t) ==
    \E i \in 1..Len(t.dependencies) :
        \E unsup \in unsupported_deps : Contains(t.dependencies[i], Chars(unsup))

\* the list without fn_not
boolean_returning_functions_without_not ==
    {"boolean_equal", "boolean_less_than", "boolean_greater_than",
     "datetime_equal", "datetime_less_than", "datetime_greater_than",
     "duration_equal", "duration_less_than", "duration_greater_than",
     "numeric_equal_int", "numeric_less_than_int", "numeric_greater_than_int",
     "numeric_equal_float", "numeric_less_than_float", "numeric_greater_than_float",
     "numeric_equal_double", "numeric_less_than_double", "numeric_greater_than_double"}

boolean_returning_functions ==
    {"fn_not", "boolean_equal", "boolean_less_than", "boolean_greater_than",
     "datetime_equal", "datetime_less_than", "datetime_greater_than",
     "duration_equal", "duration_less_than", "duration_greater_than",
     "numeric_equal_int", "numeric_less_than_int", "numeric_greater_than_int",
     "numeric_equal_float", "numeric_less_than_float", "numeric_greater_than_float",
     "numeric_equal_double", "numeric_less_than_double", "numeric_greater_than_double"}

float_returning_functions ==
    {"numeric_add_float", "numeric_subtract_float", "numeric_multiply_float",
     "numeric_divide_float", "round_float", "ceil_float", "floor_float",
     "cast_integer_to_float", "cast_double_to_float"}

double_returning_functions ==
    {"numeric_add_double", "numeric_subtract_double", "numeric_multiply_double",
     "numeric_divide_double", "round_double", "ceil_double", "floor_double",
     "cast_integer_to_double"}

option_int_returning_functions == {"cast_float_to_integer", "cast_double_to_integer"}

unsigned_return_functions ==
    {"month_from_datetime", "day_from_datetime", "hours_from_datetime",
     "minutes_from_datetime", "seconds_from_datetime", "days_from_duration",
     "hours_from_duration", "minutes_from_duration", "seconds_from_duration"}

\* The pieces of generated text.  A skip comment is its lines, each the fixed
\* words and the values interpolated into it, tagged by what they are.
Part(tag, x) == [tag |-> tag, x |-> x]
Line(text, parts) == [text |-> text, parts |-> parts]
Skip(lines) == [kind |-> "skip", lines |-> lines]

\* assert(<call><method> == <rhs>);  rhs is NoRhs for assert(<call>.is_some());
NoRhs == [t |-> "none", v |-> ""]
ConstArg(c) == [t |-> "const", v |-> c]
AssertStmt(call, method, rhs) == [call |-> call, method |-> method, rhs |-> rhs]

TestFn(test_name, has_desc, setup, assertions) ==
    [kind |-> "test", name |-> test_name, has_desc |-> has_desc, setup |-> setup,
     assertions |-> assertions]

Asserts(stmts) == [kind |-> "asserts", stmts |-> stmts]

\* the assertion for a float- or double-returning function and the expected
\* float val; Raises when float(int_val) raised OverflowError (val is Raises)
\* or packing throws it
FloatAssertion(call, val, func_returns_float) ==
    IF val = Raises THEN Raises
    ELSE IF func_returns_float THEN
        IF FloatIsZero(val) THEN Asserts(<<AssertStmt(call, "", ConstArg("XsdFloat::zero()"))>>)
        ELSE IF float_to_bits(val) = Raises THEN Raises
        ELSE Asserts(<<AssertStmt(call, ".to_bits()", IntArg(float_to_bits(val)))>>)
    ELSE
        IF FloatIsZero(val) THEN Asserts(<<AssertStmt(call, "", ConstArg("XsdDouble::zero()"))>>)
        ELSE Asserts(<<AssertStmt(call, ".to_bits()", IntArg(double_to_bits(val)))>>)

\* the embedded expected value that is no integer: float_val is
\* float(embedded_expected), Raises for ValueError; int(float_val) of an
\* infinity raises OverflowError, which is not caught
EmbeddedFloatAssertion(call, test_name, embedded_expected, float_val) ==
    IF float_val = Raises \/ float_val.cls = "nan"
    THEN Skip(<<Line("SKIP", <<Part("test_name", test_name)>>),
                Line("Cannot parse embedded expected",
                     <<Part("embedded_expected", embedded_expected.s)>>)>>)
    ELSE Only({IF i = Raises THEN Raises ELSE Asserts(<<AssertStmt(call, "", IntArg(i))>>) :
                i \in {PyInt(float_val)}})

\* the assertion of generate_noir_test for a converted expression: the
\* assert statements, or what the function returns early (a skip comment or
\* None), or Raises
Assertion(t, test_name, conversion, noir_func) ==
    Only({
    LET call == conversion.call
        embedded_expected == conversion.embedded_expected
        func_returns_bool == noir_func \in boolean_returning_functions
        func_returns_float == noir_func \in float_returning_functions
        func_returns_double == noir_func \in double_returning_functions
        func_returns_option_int == noir_func \in option_int_returning_functions
        expected == t.expected_result
        int_val == parse_integer(expected)
        bool_val == parse_boolean(expected)
    IN  IF embedded_expected # None THEN
            IF parse_integer(embedded_expected.s) = Raises THEN Raises
            ELSE IF parse_integer(embedded_expected.s) # None
            THEN Asserts(<<AssertStmt(call, "", IntArg(parse_integer(embedded_expected.s)))>>)
            ELSE EmbeddedFloatAssertion(call, test_name, embedded_expected,
                                        float(embedded_expected.s))
        ELSE IF t.result_type \in {"assert-true", "assert-false"} THEN
            IF ~func_returns_bool
            THEN Skip(<<Line("SKIP", <<Part("test_name", test_name)>>),
                        Line("Result type incompatible with non-boolean function",
                             <<Part("result_type", t.result_type),
                               Part("noir_func", noir_func)>>),
                        Line("Expression", <<Part("test_expr", t.test_expr)>>)>>)
            ELSE Asserts(<<AssertStmt(call, "", BoolArg(t.result_type = "assert-true"))>>)
        ELSE IF t.result_type = "assert-eq" THEN
            \* parse_integer(expected) raised ValueError
            IF int_val = Raises THEN Raises
            ELSE IF func_returns_option_int THEN
                IF int_val # None
                THEN Asserts(<<AssertStmt(call, ".is_some()", NoRhs),
                               AssertStmt(call, ".unwrap()", IntArg(int_val))>>)
                ELSE IF float_val # None THEN
                    Only({IF i = Raises THEN Raises
                          ELSE Asserts(<<AssertStmt(call, ".is_some()", NoRhs),
                                         AssertStmt(call, ".unwrap()", IntArg(i))>>) :
                            i \in {PyInt(float_val.val)}})
                ELSE Skip(<<Line("SKIP", <<Part("test_name", test_name)>>),
                            Line("Cannot parse expected for cast-to-integer function",
                                 <<Part("expected_result", expected)>>)>>)
            ELSE IF func_returns_float \/ func_returns_double THEN
                IF float_val # None
                THEN FloatAssertion(call, float_val.val, func_returns_float)
                ELSE IF int_val # None
                THEN FloatAssertion(call, PyFloat(IntV(int_val)), func_returns_float)
                ELSE Skip(<<Line("SKIP", <<Part("test_name", test_name)>>),
                            Line("Cannot parse expected for float function",
                                 <<Part("expected_result", expected)>>)>>)
            ELSE IF int_val # None THEN
                IF IntIsNegative(int_val) /\ noir_func \in unsigned_return_functions
                THEN Skip(<<Line("SKIP", <<Part("test_name", test_name)>>),
                            Line("Negative expected value incompatible with unsigned return type",
                                 <<Part("int_val", int_val)>>)>>)
                ELSE Asserts(<<AssertStmt(call, "", IntArg(int_val))>>)
            ELSE IF bool_val # None THEN Asserts(<<AssertStmt(call, "", BoolArg(bool_val.b))>>)
            ELSE IF float_val # None
            THEN Skip(<<Line("SKIP", <<Part("test_name", test_name)>>),
                        Line("Float expected value incompatible with function",
                             <<Part("noir_func", noir_func)>>)>>)
            ELSE Skip(<<Line("SKIP", <<Part("test_name", test_name)>>),
                        Line("Cannot parse expected",
                             <<Part("expected_result", expected)>>)>>)
        ELSE None :
            float_val \in {parse_float(t.expected_result)}})

\* the rest of generate_noir_test once the expression is converted: the
\* "Cannot auto-convert" comment, what the assertion returns early, or the
\* test function
TestOrSkip(t, test_name, conversion, assertion) ==
    IF conversion = None
    THEN Skip(<<Line("SKIP", <<Part("test_name", test_name)>>),
                Line("Cannot auto-convert", <<Part("test_expr", t.test_expr)>>),
                Line("Expected", <<Part("expected_result", t.expected_result)>>)>>)
    ELSE IF assertion = None \/ assertion = Raises THEN assertion
    ELSE IF assertion.kind = "skip" THEN assertion
    ELSE TestFn(test_name, t.description # "", conversion.setup, assertion.stmts)

\* the assertion for a conversion, None for none
AssertionOf(t, test_name, conversion, function_name_) ==
    IF conversion = None THEN None
    ELSE Assertion(t, test_name, conversion, FUNCTION_MAP[function_name_])

\* the conversion and its assertion
ConvertedTest(t, test_name, conversion, function_name_) ==
    TestOrSkip(t, test_name, conversion,
               AssertionOf(t, test_name, conversion, function_name_))

\* generate_noir_test(test, function_name): the text of a test function, a
\* skip comment, None, or Raises for an exception that escapes
generate_noir_test(t, function_name_) ==
    IF HasUnsupportedDependency(t) THEN None
    ELSE ConvertedTest(t, sanitize_test_name(t.name),
                       convert_xpath_expr(t.test_expr, function_name_), function_name_)

----------------------------------------------------------------------------
(* The parser.  XPath2Parser.parse(text) builds the token tree; the         *)
(* constructors below build the tree of each form of expression the model   *)
(* uses, with the value evaluate() returns for it.                          *)

\* the value of a token the translator never evaluates
NoValue == [k |-> "novalue"]

NameToken(v) == Token("(name)", v, <<>>, <<>>, NoValue)
Prefixed(prefix, tok) == Token(":", "", <<>>, <<NameToken(prefix), tok>>, tok.evaluate)

IntegerLiteral(ip) ==
    Token("(integer)", "", DigitsText("", FALSE, ip), <<>>, IntV(MkInt(FALSE, ip)))
\* "2." and ".5" are decimal literals too: the value of ".5" is 0.5
DecimalLiteral(ip, fp) ==
    Token("(decimal)", "", DecimalText("", FALSE, ip, fp), <<>>,
          DecimalV(FALSE, IF ip = <<>> THEN <<0>> ELSE ip, fp))
DoubleLiteral(ip, fp, exp) ==
    Token("(float)", "", ExpText("", FALSE, ip, fp, exp), <<>>,
          float(ExpText("", FALSE, ip, fp, exp)))
StringLiteral(text) == Token("(string)", "", text, <<>>, StrV(text))

\* -v for a number v
Negated(v) ==
    CASE v.k = "raise"   -> Raises
      [] v.k = "int"     -> IntV(MkInt(~v.i.neg, v.i.mag))
      [] v.k = "Decimal" -> DecimalV(~v.neg, v.ip, v.fp)
      [] v.k = "float"   -> [v EXCEPT !.neg = ~v.neg]

UnaryMinus(a) == Token("-", "", <<>>, <<a>>, Negated(a.evaluate))
UnaryPlus(a)  == Token("+", "", <<>>, <<a>>, a.evaluate)
\* an operator at the root of the expression; its own value is never read
BinaryOp(symbol, a, b) == Token(symbol, "", <<>>, <<a, b>>, NoValue)

\* a function call name(args) with value v
Call(name, args, v) == Token(name, "", <<>>, args, v)

TrueCall  == Call("true", <<>>, BoolV(TRUE))
FalseCall == Call("false", <<>>, BoolV(FALSE))

\* the constructors xs:integer(a), xs:decimal(a), xs:float(a), xs:double(a)
\* over a numeric argument
XsInteger(a) ==
    Prefixed("xs", Call("integer", <<a>>,
        IF PyInt(a.evaluate) = Raises THEN Raises ELSE IntV(PyInt(a.evaluate))))
XsDecimal(a) ==
    Prefixed("xs", Call("decimal", <<a>>,
        IF a.evaluate.k = "Decimal" THEN a.evaluate
        ELSE DecimalV(a.evaluate.i.neg, a.evaluate.i.mag, <<>>)))
XsFloat(a)   == Prefixed("xs", Call("float", <<a>>, PyFloat(a.evaluate)))
XsDouble(a)  == Prefixed("xs", Call("double", <<a>>, PyFloat(a.evaluate)))
\* xs:float("INF"), xs:double("NaN"), ...: a constructor over a word
XsFloatWord(name, w) ==
    Prefixed("xs", Call(name, <<StringLiteral(WordText("", w))>>, float(WordText("", w))))

XsDoubleNaN == XsFloatWord("double", <<"N", "a", "N">>)

\* A dateTime literal: the fields, whether it has fractional seconds, and
\* the zone (None or Tz)
DateTimeText(y, mo, d, h, mi, s, frac, us, tzinfo) ==
    [year |-> y, month |-> mo, day |-> d, hour |-> h,
     minute |-> mi, second |-> s, frac |-> frac, microsecond |-> us, tzinfo |-> tzinfo]

\* the len digits of n, with leading zeros
Padded(n, len) == DigitStr([i \in 1..len |-> (n \div Pow10(len - i)) % 10])

\* the zone as the literal writes it: nothing, Z, or +hh:mm / -hh:mm
ZoneChars(tzinfo) ==
    IF tzinfo = None THEN <<>>
    ELSE IF tzinfo.offset = 0 THEN <<"Z">>
    ELSE Only({<<IF tzinfo.offset < 0 THEN "-" ELSE "+">>
                 \o Padded(m \div 60, 2) \o <<":">> \o Padded(m % 60, 2) :
                 m \in {IF tzinfo.offset < 0 THEN -tzinfo.offset ELSE tzinfo.offset}})

\* the literal: yyyy-mm-ddThh:mm:ss[.ffffff][zone]
DateTimeChars(text) ==
    Padded(text.year, 4) \o <<"-">> \o Padded(text.month, 2) \o <<"-">>
      \o Padded(text.day, 2) \o <<"T">> \o Padded(text.hour, 2) \o <<":">>
      \o Padded(text.minute, 2) \o <<":">> \o Padded(text.second, 2)
      \o (IF text.frac THEN <<".">> \o Padded(text.microsecond, 6) ELSE <<>>)
      \o ZoneChars(text.tzinfo)

XsDateTime(text) ==
    Prefixed("xs", Call("dateTime", <<StringLiteral(DateTimeChars(text))>>,
        DateTime10(text.year, text.month, text.day, text.hour, text.minute,
                   text.second, text.microsecond, text.tzinfo)))

DayTimeDurationValue == [k |-> "DayTimeDuration"]
XsDayTimeDuration(text) ==
    Prefixed("xs", Call("dayTimeDuration", <<StringLiteral(text)>>, DayTimeDurationValue))

\* a parenthesised expression: the "(" token over its content
Paren(a) == Token("(", "", <<>>, <<a>>, a.evaluate)

\* source cast as xs:<target>, with the value of the cast
CastAs(source, target) ==
    Token("cast", "", <<>>,
          <<source, Token(":", "", <<>>, <<NameToken("xs"), NameToken(target)>>, NoValue)>>,
          IF target = "integer"
          THEN (IF PyInt(source.evaluate) = Raises THEN Raises
                ELSE IntV(PyInt(source.evaluate)))
          ELSE PyFloat(source.evaluate))

\* The text of an expression, from the tree the parser builds for it: a
\* literal as written, a string between single quotes, prefix:name,
\* (expression), "source cast as type", a sign before its operand, an
\* operator between its operands, and name(argument, ..) for a call
ArithSymbols == {"+", "-", "*", "div", "idiv", "mod"}

RECURSIVE Source(_)
Source(token) ==
    IF token.symbol \in {"(integer)", "(decimal)", "(float)"} THEN token.lit
    ELSE IF token.symbol = "(string)" THEN <<"'">> \o token.lit \o <<"'">>
    ELSE IF token.symbol = "(name)" THEN Chars(token.value)
    ELSE IF token.symbol = ":"
    THEN Source(Child(token, 0)) \o <<":">> \o Source(Child(token, 1))
    ELSE IF token.symbol = "(" THEN <<"(">> \o Source(Child(token, 0)) \o <<")">>
    ELSE IF token.symbol = "cast"
    THEN Source(Child(token, 0)) \o Chars(" cast as ") \o Source(Child(token, 1))
    ELSE IF token.symbol \in {"+", "-"} /\ TokLen(token) = 1
    THEN <<token.symbol>> \o Source(Child(token, 0))
    ELSE IF token.symbol \in ArithSymbols \cup CmpSymbols /\ TokLen(token) = 2
    THEN Source(Child(token, 0)) \o <<" ">> \o Chars(token.symbol) \o <<" ">>
           \o Source(Child(token, 1))
    ELSE Chars(token.symbol) \o <<"(">>
           \o Flatten([i \in 1..TokLen(token) |->
                          (IF i > 1 THEN <<",", " ">> ELSE <<>>)
                            \o Source(token.children[i])])
           \o <<")">>

\* An expression: its text, the token tree the text denotes, and whether
\* XPath2Parser.parse accepts the text.
Expr(tree, parses) == [text |-> Source(tree), tree |-> tree, parses |-> parses]

----------------------------------------------------------------------------
(* The corpus of the model: operands, expressions and declared results.     *)

Int63 == <<9,2,2,3,3,7,2,0,3,6,8,5,4,7,7,5,8,0,8>>          \* 2^63
Int63m1 == <<9,2,2,3,3,7,2,0,3,6,8,5,4,7,7,5,8,0,7>>        \* 2^63 - 1
Int63p1 == <<9,2,2,3,3,7,2,0,3,6,8,5,4,7,7,5,8,0,9>>        \* 2^63 + 1

\* integer operands: small ones and the ones around the i64 and i8 limits
SmallIntOperands ==
    {IntegerLiteral(<<5>>), IntegerLiteral(<<3>>), UnaryMinus(IntegerLiteral(<<5>>)),
     IntegerLiteral(<<0,0,7>>)}
LimitIntOperands ==
    {IntegerLiteral(Int63m1), IntegerLiteral(Int63), UnaryMinus(IntegerLiteral(Int63)),
     UnaryMinus(IntegerLiteral(Int63p1))}
I8Operands ==
    {IntegerLiteral(<<1,2,7>>), IntegerLiteral(<<1,2,8>>), IntegerLiteral(<<2,0,0>>),
     UnaryMinus(IntegerLiteral(<<1,2,8>>)), UnaryMinus(IntegerLiteral(<<1,2,9>>)),
     Paren(UnaryMinus(IntegerLiteral(<<1,2,8>>))),
     IntegerLiteral(<<5>>), XsInteger(IntegerLiteral(<<5>>)),
     XsDecimal(IntegerLiteral(<<5>>)), TrueCall,
     XsDouble(DecimalLiteral(<<1>>, <<5>>))}

FloatOperands ==
    {XsFloat(DecimalLiteral(<<1>>, <<5>>)), XsFloat(IntegerLiteral(<<2>>)),
     XsFloat(UnaryMinus(DecimalLiteral(<<2>>, <<5>>))), XsFloatWord("float", <<"I", "N", "F">>),
     XsFloat(IntegerLiteral(<<0>>))}
DoubleOperands ==
    {XsDouble(DecimalLiteral(<<1>>, <<5>>)), XsDouble(IntegerLiteral(<<2>>)),
     XsDoubleNaN, DoubleLiteral(<<1>>, <<5>>, 0), DecimalLiteral(<<2>>, <<5>>)}

\* dateTime literals: after, at and before the epoch, one before the epoch
\* only once its zone is applied, and some with fractional seconds
DateTimeTexts ==
    {DateTimeText(2002, 4, 2, 12, 0, 0, FALSE, 0, Tz(0)),
     DateTimeText(2002, 4, 2, 12, 0, 0, FALSE, 0, None),
     DateTimeText(2030, 12, 31, 23, 59, 59, FALSE, 0, Tz(-300)),
     DateTimeText(1970, 1, 1, 0, 0, 0, FALSE, 0, Tz(0)),
     DateTimeText(1969, 12, 31, 23, 59, 59, FALSE, 0, Tz(0)),
     DateTimeText(1970, 1, 1, 2, 0, 0, FALSE, 0, Tz(300)),
     DateTimeText(1950, 2, 28, 0, 0, 0, FALSE, 0, None),
     DateTimeText(2002, 4, 2, 12, 0, 0, TRUE, 500000, Tz(0)),
     DateTimeText(1970, 1, 1, 0, 0, 0, TRUE, 249, Tz(0)),
     DateTimeText(2004, 10, 23, 19, 57, 33, TRUE, 192844, Tz(120))}

PostEpochTexts ==
    {DateTimeText(2002, 4, 2, 12, 0, 0, FALSE, 0, Tz(0)),
     DateTimeText(2030, 12, 31, 23, 59, 59, FALSE, 0, Tz(-300))}

\* dayTimeDuration literals: P3DT10H, PT0.5S, -P1D, P200000000D (beyond
\* i64 in microseconds), one without the leading P, and PT.5S, whose
\* seconds have no digit before the point
DurationTexts ==
    {DurationText(FALSE, TRUE, <<>>, TRUE, <<>>, <<>>, Num(<<>>, <<5>>))} \cup
    {DurationText(FALSE, TRUE, Num(<<3>>, <<>>), TRUE, Num(<<1,0>>, <<>>), <<>>, <<>>),
     DurationText(FALSE, TRUE, <<>>, TRUE, <<>>, <<>>, Num(<<0>>, <<5>>)),
     DurationText(TRUE, TRUE, Num(<<1>>, <<>>), FALSE, <<>>, <<>>, <<>>),
     DurationText(FALSE, TRUE, Num(<<2,0,0,0,0,0,0,0,0>>, <<>>), FALSE, <<>>, <<>>, <<>>),
     DurationText(FALSE, FALSE, Num(<<1>>, <<>>), FALSE, <<>>, <<>>, <<>>),
     DurationText(FALSE, TRUE, <<>>, TRUE, <<>>, <<>>, Num(<<6,0,0,0,0,0,0,0,0,0,0,1>>, <<>>)),
     DurationText(TRUE, TRUE, <<>>, TRUE, <<>>, <<>>, Num(<<9,2,2,3,3,7,2,0,3,6,8,5,4>>, <<>>)),
     DurationText(FALSE, TRUE, <<>>, TRUE, <<>>, <<>>, Num(<<1>>, <<1>>))}

P3DT10H == DurationText(FALSE, TRUE, Num(<<3>>, <<>>), TRUE, Num(<<1,0>>, <<>>), <<>>, <<>>)
Y2002 == DateTimeText(2002, 4, 2, 12, 0, 0, FALSE, 0, Tz(0))
F15 == XsFloat(DecimalLiteral(<<1>>, <<5>>))
D15 == XsDouble(DecimalLiteral(<<1>>, <<5>>))

\* 10^400, a whole number beyond the largest double
Big401 == <<1>> \o [i \in 1..400 |-> 0]
\* a whole number of 4301 digits, one more than int() of a str accepts
Digits4301 == [i \in 1..4301 |-> 1]

\* the token trees of each test file's expressions
ArithmeticTrees ==
    {BinaryOp(y, IntegerLiteral(<<5>>), b) :
        y \in ArithSymbols \cup CmpSymbols,
        b \in {IntegerLiteral(<<3>>), UnaryMinus(IntegerLiteral(<<5>>))}}
    \cup {BinaryOp("+", IntegerLiteral(<<5>>), IntegerLiteral(<<0,0,7>>))}
    \cup {BinaryOp(y, a, IntegerLiteral(<<3>>)) : y \in {"+", "lt"}, a \in LimitIntOperands}
    \cup {BinaryOp(y, IntegerLiteral(<<5>>), b) : y \in {"+", "*"}, b \in LimitIntOperands}
    \cup {BinaryOp(y, F15, b) : y \in {"+", "eq", "gt"}, b \in FloatOperands}
    \cup {BinaryOp(y, D15, b) : y \in {"+", "eq", "<"}, b \in DoubleOperands}
    \cup {BinaryOp("+", DecimalLiteral(<<2>>, <<5>>), DecimalLiteral(<<2>>, <<5>>)),
          BinaryOp("+", DecimalLiteral(<<2>>, <<5>>), IntegerLiteral(<<3>>)),
          BinaryOp("+", IntegerLiteral(<<5>>), DecimalLiteral(<<2>>, <<>>)),
          BinaryOp("+", IntegerLiteral(<<5>>), DecimalLiteral(<<>>, <<5>>)),
          BinaryOp("+", XsFloat(IntegerLiteral(<<2>>)), XsDouble(IntegerLiteral(<<2>>))),
          BinaryOp("+", IntegerLiteral(<<5>>), XsInteger(IntegerLiteral(<<3>>))),
          BinaryOp("+", IntegerLiteral(<<5>>), XsDecimal(DecimalLiteral(<<1>>, <<5>>))),
          \* 1 + 'v1.5': a string operand that holds digits around a point
          BinaryOp("+", IntegerLiteral(<<1>>), StringLiteral(Chars("v1.5")))}
    \cup {UnaryPlus(a) : a \in SmallIntOperands \cup {IntegerLiteral(Int63)}}
    \cup {UnaryMinus(a) : a \in {IntegerLiteral(<<5>>), IntegerLiteral(Int63),
                                 IntegerLiteral(Int63p1),
                                 XsFloat(IntegerLiteral(<<2>>))}}

NumericFunctionTrees ==
    {Prefixed("fn", Call(n, <<a>>, NoValue)) :
        n \in {"abs", "ceiling", "floor", "round"},
        a \in {UnaryMinus(IntegerLiteral(<<5>>)), UnaryMinus(IntegerLiteral(Int63p1)),
               XsFloat(DecimalLiteral(<<2>>, <<5>>)),
               XsDouble(UnaryMinus(DecimalLiteral(<<2>>, <<5>>))),
               DecimalLiteral(<<2>>, <<5>>)}}
    \cup {Call("abs", <<IntegerLiteral(<<5>>)>>, NoValue), Call("round", <<>>, NoValue)}

BooleanTrees ==
    {Prefixed("fn", Call("not", <<a>>, NoValue)) :
        a \in {TrueCall, FalseCall, IntegerLiteral(<<5>>)}}
    \cup {BinaryOp(y, TrueCall, b) : y \in {"eq", "lt", "gt", "="},
                                     b \in {TrueCall, FalseCall}}
    \cup {Call("not", <<>>, NoValue)}

CastTrees ==
    {XsFloat(a) : a \in I8Operands} \cup {XsDouble(a) : a \in I8Operands}
    \cup {CastAs(a, target) : a \in I8Operands, target \in {"float", "double"}}
    \cup {XsInteger(a) : a \in {F15, D15, XsFloatWord("float", <<"I", "N", "F">>),
                                IntegerLiteral(<<5>>)}}
    \cup {CastAs(a, "integer") : a \in {F15, D15, DecimalLiteral(<<2>>, <<5>>)}}
    \cup {XsFloat(D15), CastAs(D15, "float")}
    \* a source beyond the largest double: float(source_val) raises
    \cup {XsFloat(IntegerLiteral(Big401)), CastAs(IntegerLiteral(Big401), "double"),
          XsInteger(XsDouble(IntegerLiteral(Big401)))}
    \* "-(5 cast as xs:float)": the negation of a cast
    \cup {UnaryMinus(Paren(CastAs(IntegerLiteral(<<5>>), target))) :
            target \in {"float", "double"}}

DateTimeTrees ==
    {Prefixed("fn", Call(n, <<XsDateTime(x)>>, NoValue)) :
        n \in {"year-from-dateTime", "seconds-from-dateTime", "timezone-from-dateTime"},
        x \in DateTimeTexts}
    \cup {BinaryOp(y, XsDateTime(x1), XsDateTime(Y2002)) :
            y \in {"eq", "lt", "gt", "-"}, x1 \in DateTimeTexts}
    \cup {BinaryOp(y, XsDateTime(x2), XsDateTime(x1)) :
            y \in {"eq", "-"}, x1 \in DateTimeTexts, x2 \in PostEpochTexts}
    \cup {BinaryOp(y, XsDateTime(x), XsDayTimeDuration(P3DT10H)) :
            y \in {"+", "-"}, x \in DateTimeTexts}
    \cup {BinaryOp(y, XsDateTime(Y2002), XsDayTimeDuration(d)) :
            y \in {"+", "-"}, d \in DurationTexts}

DurationTrees ==
    {Prefixed("fn", Call(n, <<XsDayTimeDuration(d)>>, NoValue)) :
        n \in {"days-from-duration", "seconds-from-duration"}, d \in DurationTexts}
    \cup {BinaryOp(y, XsDayTimeDuration(P3DT10H), XsDayTimeDuration(d)) :
            y \in {"eq", "lt", "+", "-"}, d \in DurationTexts}
    \cup {BinaryOp(y, XsDayTimeDuration(d), XsDayTimeDuration(P3DT10H)) :
            y \in {"eq", "+"}, d \in DurationTexts}

\* one or two expressions of each form, tried against every operation and
\* every declared result
CoreTrees ==
    {BinaryOp("+", IntegerLiteral(<<5>>), IntegerLiteral(<<3>>)),
     BinaryOp("eq", IntegerLiteral(<<5>>), IntegerLiteral(<<3>>)),
     BinaryOp("mod", IntegerLiteral(<<5>>), IntegerLiteral(<<3>>)),
     BinaryOp("+", F15, F15), BinaryOp("eq", D15, D15),
     UnaryMinus(IntegerLiteral(<<5>>)),
     Prefixed("fn", Call("abs", <<UnaryMinus(IntegerLiteral(<<5>>))>>, NoValue)),
     Prefixed("fn", Call("floor", <<D15>>, NoValue)),
     Prefixed("fn", Call("not", <<TrueCall>>, NoValue)),
     BinaryOp("eq", TrueCall, FalseCall),
     XsFloat(IntegerLiteral(<<5>>)), XsFloat(IntegerLiteral(<<2,0,0>>)),
     CastAs(IntegerLiteral(<<5>>), "double"), XsInteger(F15), XsFloat(D15),
     Prefixed("fn", Call("year-from-dateTime", <<XsDateTime(Y2002)>>, NoValue)),
     Prefixed("fn", Call("timezone-from-dateTime", <<XsDateTime(Y2002)>>, NoValue)),
     BinaryOp("eq", XsDateTime(Y2002), XsDateTime(Y2002)),
     BinaryOp("+", XsDateTime(Y2002), XsDayTimeDuration(P3DT10H)),
     BinaryOp("-", XsDateTime(Y2002), XsDateTime(Y2002)),
     Prefixed("fn", Call("days-from-duration", <<XsDayTimeDuration(P3DT10H)>>, NoValue)),
     BinaryOp("lt", XsDayTimeDuration(P3DT10H), XsDayTimeDuration(P3DT10H)),
     BinaryOp("+", XsDayTimeDuration(P3DT10H), XsDayTimeDuration(P3DT10H))}

\* the operations that read each test file
ArithmeticFunctions ==
    {"op:numeric-add", "op:numeric-subtract", "op:numeric-multiply", "op:numeric-divide",
     "op:numeric-integer-divide", "op:numeric-mod", "op:numeric-equal",
     "op:numeric-less-than", "op:numeric-greater-than",
     "op:numeric-unary-plus", "op:numeric-unary-minus",
     "op:numeric-add-float", "op:numeric-divide-float", "op:numeric-equal-float",
     "op:numeric-greater-than-float",
     "op:numeric-add-double", "op:numeric-equal-double", "op:numeric-less-than-double"}
NumericFunctionFunctions ==
    {"fn:abs", "fn:ceiling", "fn:floor", "fn:round", "fn:round-float", "fn:ceiling-float",
     "fn:floor-float", "fn:round-double", "fn:ceiling-double", "fn:floor-double"}
BooleanFunctions ==
    {"fn:not", "op:boolean-equal", "op:boolean-less-than", "op:boolean-greater-than"}
CastFunctions == DOMAIN CAST_FUNCTION_PATTERNS
DateTimeFunctions ==
    {"fn:year-from-dateTime", "fn:seconds-from-dateTime", "fn:timezone-from-dateTime",
     "op:dateTime-equal", "op:dateTime-less-than", "op:dateTime-greater-than",
     "op:add-dayTimeDuration-to-dateTime", "op:subtract-dayTimeDuration-from-dateTime",
     "op:subtract-dateTimes"}
DurationFunctions ==
    {"fn:days-from-duration", "fn:seconds-from-duration", "op:add-dayTimeDurations",
     "op:subtract-dayTimeDurations", "op:dayTimeDuration-equal",
     "op:dayTimeDuration-less-than"}

\* an operation main() accepts only from --functions and that is not in
\* FUNCTION_MAP
UnmappedFunction == "fn:concat"

\* declared results: (expected_result, result_type) as parse_test_file
\* leaves them
Result(expected_result, result_type) ==
    [expected_result |-> expected_result, result_type |-> result_type]

AssertTrue  == Result(WordText("", <<"t", "r", "u", "e">>), "assert-true")
AssertFalse == Result(WordText("", <<"f", "a", "l", "s", "e">>), "assert-false")
Eq8 == Result(DigitsText("", FALSE, <<8>>), "assert-eq")

ExpectedTexts ==
    {DigitsText("", FALSE, <<8>>), DigitsText("", TRUE, <<1>>), DigitsText("", FALSE, <<0>>),
     DigitsText("", FALSE, Int63), DigitsText("", TRUE, Int63p1),
     DigitsText("xs:integer", FALSE, <<8>>),
     WordText("", <<"t", "r", "u", "e">>), WordText("", <<"f", "a", "l", "s", "e">>),
     WordText("", <<"F", "a", "l", "s", "e">>), WordText("", <<"a", "b", "c">>),
     WordText("", <<>>), DecimalText("", FALSE, <<2>>, <<>>),
     WordText("xs:float", <<"I", "n", "f">>), WordText("xs:double", <<"-", "n", "a", "n">>),
     DecimalText("xs:float", FALSE, <<1>>, <<5>>), DecimalText("", FALSE, <<4>>, <<0>>),
     WordText("xs:float", Chars("+1.5")),
     DecimalText("xs:double", TRUE, <<2>>, <<5>>),
     WordText("xs:double", <<"I", "N", "F">>), WordText("xs:float", <<"N", "a", "N">>),
     DecimalText("xs:float", FALSE, <<0>>, <<0>>), DecimalText("", TRUE, <<0>>, <<0>>),
     DigitsText("", FALSE, Int128), DigitsText("", FALSE, Big401),
     DigitsText("", FALSE, Digits4301), WordText("", Chars("0e400"))}

Results ==
    {Result(x, "assert-eq") : x \in ExpectedTexts} \cup {AssertTrue, AssertFalse}

\* names as the corpus writes them
Name1 == <<"a", "-", "1">>
Name2 == <<"2", ".", "B", "$">>
\* a name that differs from Name1 in one character
Name3 == <<"a", ".", "1">>

\* dependency lists
DependencyLists ==
    {<<>>, <<Chars("spec:XQ10+")>>, <<Chars("feature:schemaImport")>>,
     <<Chars("feature:schemaValidation")>>, <<Chars("feature:staticTyping")>>,
     <<Chars("spec:XP20+"), Chars("feature:x-staticTyping-y")>>,
     <<Chars("feature:schema-location-hint")>>}

ParsedTest(tree, r) ==
    TestCase(Name1, "d", Expr(tree, TRUE), r.expected_result, r.result_type, <<>>)

\* the tests of one operation: every expression of its file with two
\* declared results, the core expressions with every declared result, an
\* expression the parser rejects, and a few with other names, descriptions
\* and dependencies
FileTests(trees) ==
    {ParsedTest(tree, r) : tree \in trees, r \in {Eq8, AssertTrue}}
    \cup {ParsedTest(tree, r) : tree \in trees \cap CoreTrees, r \in Results}

CrossTests == {ParsedTest(tree, r) : tree \in CoreTrees, r \in {Eq8, AssertTrue}}

OtherTests ==
    {TestCase(n, d, Expr(tree, parses), r.expected_result, r.result_type, deps) :
        n \in {Name1, Name2}, d \in {"", "d"},
        tree \in {BinaryOp("+", IntegerLiteral(<<5>>), IntegerLiteral(<<3>>)),
                  Prefixed("fn", Call("not", <<TrueCall>>, NoValue))},
        parses \in BOOLEAN, r \in {Eq8, AssertTrue}, deps \in DependencyLists}

\* An IEEE-754 bit pattern by its fields: the width, the sign bit, the
\* exponent field and the fraction field, a magnitude
BitPattern(width, s, ex, fr) == [width |-> width, s |-> s, ex |-> ex, fr |-> fr]

ExponentBias(width) == IF width = 32 THEN 127 ELSE 1023
ExponentMax(width) == IF width = 32 THEN 255 ELSE 2047
FractionBits(width) == IF width = 32 THEN 23 ELSE 52

\* the pattern is one of the NaNs of its width: quiet or signalling, of
\* either sign and any payload
IsNaNPattern(p) == p.ex = ExponentMax(p.width) /\ ~IsZeroMag(p.fr)

\* the pattern of the NaN that float('nan') is: the sign clear and of the
\* fraction only the first bit set
QuietNaN(width) ==
    BitPattern(width, 0, ExponentMax(width), MagMulPow2(<<1>>, FractionBits(width) - 1))

\* the value a pattern that is no NaN denotes: an infinity, a zero, a
\* subnormal or a normal number
ValueOfPattern(p) ==
    CASE p.ex = ExponentMax(p.width) /\ IsZeroMag(p.fr) -> FloatV("inf", p.s = 1, 0, 0)
      [] p.ex = 0 /\ IsZeroMag(p.fr) -> FloatV("fin", p.s = 1, 0, 0)
      [] p.ex = 0 /\ ~IsZeroMag(p.fr) ->
            Canonical(p.s = 1, Binary(p.fr, 1 - ExponentBias(p.width) - FractionBits(p.width)))
      [] p.ex \notin {0, ExponentMax(p.width)} ->
            Canonical(p.s = 1,
                      Binary(MagAdd(MagMulPow2(<<1>>, FractionBits(p.width)), p.fr),
                             p.ex - ExponentBias(p.width) - FractionBits(p.width)))

\* the pattern as an unsigned integer
BitsOfPattern(p) ==
    MkInt(FALSE,
          MagAdd(IF p.s = 1 THEN MagMulPow2(<<1>>, p.width - 1) ELSE <<0>>,
                 MagAdd(MagMulPow2(NatDigits(p.ex), FractionBits(p.width)), p.fr)))

\* the len digits of n, with leading zeros
FractionDigits(n, len) == [i \in 1..len |-> (n \div Pow10(len - i)) % 10]

WrapOf(width) == IF width = 32 THEN "xs:float" ELSE "xs:double"

\* Literals in the canonical form of XSD, the fewest digits that denote the
\* value in its width, by exponent and fraction field: of the 32-bit format
\* the least and the greatest subnormal, the least normal and the greatest
\* finite number, 0.1 (0x3DCCCCCD), a third (0x3EAAAAAB) and 16777218
\* (0x4B800001); of the 64-bit format the same but for the last
ShortestLiterals ==
    { [width |-> 32, ex |-> 0, fr |-> <<1>>, text |-> Chars("1.4E-45")],
      [width |-> 32, ex |-> 0, fr |-> <<8,3,8,8,6,0,7>>, text |-> Chars("1.1754942E-38")],
      [width |-> 32, ex |-> 1, fr |-> <<0>>, text |-> Chars("1.17549435E-38")],
      [width |-> 32, ex |-> 254, fr |-> <<8,3,8,8,6,0,7>>, text |-> Chars("3.4028235E38")],
      [width |-> 32, ex |-> 123, fr |-> <<5,0,3,3,1,6,5>>, text |-> Chars("0.1")],
      [width |-> 32, ex |-> 125, fr |-> <<2,7,9,6,2,0,3>>, text |-> Chars("0.33333334")],
      [width |-> 32, ex |-> 151, fr |-> <<1>>, text |-> Chars("1.6777218E7")],
      [width |-> 64, ex |-> 0, fr |-> <<1>>, text |-> Chars("4.9E-324")],
      [width |-> 64, ex |-> 0, fr |-> <<4,5,0,3,5,9,9,6,2,7,3,7,0,4,9,5>>,
       text |-> Chars("2.225073858507201E-308")],
      [width |-> 64, ex |-> 1, fr |-> <<0>>, text |-> Chars("2.2250738585072014E-308")],
      [width |-> 64, ex |-> 2046, fr |-> <<4,5,0,3,5,9,9,6,2,7,3,7,0,4,9,5>>,
       text |-> Chars("1.7976931348623157E308")],
      [width |-> 64, ex |-> 1019, fr |-> <<2,7,0,2,1,5,9,7,7,6,4,2,2,2,9,8>>,
       text |-> Chars("0.1")],
      [width |-> 64, ex |-> 1021, fr |-> <<1,5,0,1,1,9,9,8,7,5,7,9,0,1,6,5>>,
       text |-> Chars("0.3333333333333333")] }

\* the decimal expansion of a finite float whose magnitude is a number
Expansion10(v, wrap) ==
    IF v.e >= 0 THEN DecimalText(wrap, v.neg, NatDigits(v.m * Pow2(v.e)), <<0>>)
    ELSE DecimalText(wrap, v.neg, NatDigits(v.m \div Pow2(-v.e)),
                     FractionDigits((v.m % Pow2(-v.e)) * Pow5(-v.e), -v.e))

\* the table has a literal for the magnitude of the pattern
HasShortest(p) ==
    \E l \in ShortestLiterals : l.width = p.width /\ l.ex = p.ex /\ l.fr = p.fr

\* the literal of the value of a pattern as the corpus writes it, inside
\* xs:float(..) or xs:double(..): NaN for every NaN, INF, -INF, the
\* shortest literal of the table, or else the decimal expansion with at
\* least one fraction digit
encode_text(p) ==
    IF IsNaNPattern(p) THEN WordText(WrapOf(p.width), <<"N", "a", "N">>)
    ELSE IF p.ex = ExponentMax(p.width)
    THEN WordText(WrapOf(p.width), IF p.s = 1 THEN <<"-", "I", "N", "F">> ELSE <<"I", "N", "F">>)
    ELSE IF HasShortest(p)
    THEN WordText(WrapOf(p.width),
                  (IF p.s = 1 THEN <<"-">> ELSE <<>>)
                  \o (CHOOSE l \in ShortestLiterals :
                        l.width = p.width /\ l.ex = p.ex /\ l.fr = p.fr).text)
    ELSE Expansion10(ValueOfPattern(p), WrapOf(p.width))

\* patterns of both widths: the zeros, the infinities, the numbers 1, 1.5,
\* 2.5, 128, 0.25, 0.75 and 13 and those of the table of literals, each
\* with either sign; and four NaNs: the quiet NaN, the same with the sign
\* set, a quiet NaN with a payload and a signalling NaN
BitPatterns ==
    {BitPattern(32, s, x[1], NatDigits(x[2])) :
        s \in {0, 1},
        x \in {<<0, 0>>, <<255, 0>>, <<127, 0>>, <<127, Pow2(22)>>, <<128, Pow2(21)>>,
               <<134, 0>>, <<125, 0>>, <<126, Pow2(22)>>, <<130, Pow2(22) + Pow2(20)>>}}
    \cup {BitPattern(64, s, x[1], MagMulPow2(NatDigits(x[2]), 32)) :
        s \in {0, 1},
        x \in {<<0, 0>>, <<2047, 0>>, <<1023, 0>>, <<1023, Pow2(19)>>, <<1024, Pow2(18)>>,
               <<1030, 0>>, <<1021, 0>>, <<1022, Pow2(19)>>, <<1026, Pow2(19) + Pow2(17)>>}}
    \cup {BitPattern(l.width, s, l.ex, l.fr) : s \in {0, 1}, l \in ShortestLiterals}
    \cup {BitPattern(width, s, ExponentMax(width), QuietNaN(width).fr) :
            width \in {32, 64}, s \in {0, 1}}
    \cup {BitPattern(width, 0, ExponentMax(width), MagAdd(QuietNaN(width).fr, <<1>>)) :
            width \in {32, 64}}
    \cup {BitPattern(width, 0, ExponentMax(width), <<1>>) : width \in {32, 64}}

\* a test of the 32-bit and of the 64-bit addition for each pattern, with
\* the literal of the pattern's value as the declared result
PatternTests(f) ==
    IF f \notin {"op:numeric-add-float", "op:numeric-add-double"} THEN {}
    ELSE {ParsedTest(IF f = "op:numeric-add-float" THEN BinaryOp("+", F15, F15)
                     ELSE BinaryOp("+", D15, D15),
                     Result(encode_text(p), "assert-eq")) :
            p \in {q \in BitPatterns : (q.width = 32) = (f = "op:numeric-add-float")}}

TestsOf(f) ==
    (IF f \in ArithmeticFunctions THEN FileTests(ArithmeticTrees) ELSE {})
    \cup (IF f \in NumericFunctionFunctions THEN FileTests(NumericFunctionTrees) ELSE {})
    \cup (IF f \in BooleanFunctions THEN FileTests(BooleanTrees) ELSE {})
    \cup (IF f \in CastFunctions THEN FileTests(CastTrees) ELSE {})
    \cup (IF f \in DateTimeFunctions THEN FileTests(DateTimeTrees) ELSE {})
    \cup (IF f \in DurationFunctions THEN FileTests(DurationTrees) ELSE {})
    \cup CrossTests
    \cup PatternTests(f)
    \cup (IF f \in {"op:numeric-add", "fn:not", UnmappedFunction} THEN OtherTests ELSE {})

FunctionNames == DOMAIN FUNCTION_MAP \cup {UnmappedFunction}

\* the longest list of tests of a run with more than one test
MaxTests == 3

SampleTests ==
    {ParsedTest(BinaryOp("+", IntegerLiteral(<<5>>), IntegerLiteral(<<3>>)), Eq8),
     ParsedTest(BinaryOp("+", IntegerLiteral(<<5>>), IntegerLiteral(Int63)), Eq8),
     TestCase(Name2, "", Expr(BinaryOp("+", IntegerLiteral(<<5>>), IntegerLiteral(<<3>>)), TRUE),
              Eq8.expected_result, "assert-eq", <<Chars("feature:schemaImport")>>),
     TestCase(Name3, "d", Expr(BinaryOp("+", IntegerLiteral(<<5>>), IntegerLiteral(<<3>>)), TRUE),
              Eq8.expected_result, "assert-eq", <<>>)}

DateTimeSampleTests ==
    {ParsedTest(BinaryOp("eq", XsDateTime(Y2002), XsDateTime(Y2002)), AssertTrue),
     ParsedTest(BinaryOp("eq", XsDateTime(Y2002),
                         XsDateTime(DateTimeText(1969, 12, 31, 23, 59, 59, FALSE, 0, Tz(0)))),
                AssertFalse)}

CastSampleTests ==
    {ParsedTest(CastAs(UnaryMinus(IntegerLiteral(<<1,2,8>>)), "float"),
                Result(DigitsText("", TRUE, <<1,2,8>>), "assert-eq")),
     ParsedTest(XsFloat(IntegerLiteral(<<1,2,8>>)),
                Result(DigitsText("", FALSE, <<1,2,8>>), "assert-eq"))}

\* the tests that runs of more than one test draw from
SampleTestsOf(f) ==
    IF f = "op:numeric-add" THEN SampleTests
    ELSE IF f = "op:dateTime-equal" THEN DateTimeSampleTests
    ELSE IF f = "xs:float-from-int" THEN CastSampleTests
    ELSE {}

\* the runs of one operation: every test of the operation alone, and the
\* lists of up to MaxTests sample tests
TestLists(f) ==
    {<<t>> : t \in TestsOf(f)}
    \cup UNION {[1..n -> SampleTestsOf(f)] : n \in 0..MaxTests}

----------------------------------------------------------------------------
(* The package directory output_dir / pkg_name.  It is None while it does   *)
(* not exist, and else the files under it: each a path and what was written *)
(* to it.  src/ exists exactly when the directory does, as the function     *)
(* creates both at once.                                                    *)

Dir(files) == [k |-> "dir", files |-> files]
File(path, content) == [path |-> path, content |-> content]

NargoPath == [name |-> "Nargo.toml", n |-> 0]
LibPath == [name |-> "src/lib.nr", n |-> 0]
\* src/chunk_<i>.nr
ChunkPath(i) == [name |-> "src/chunk_.nr", n |-> i]

\* path.write_text(content): the file is created or replaced whole
write_text(files, path, content) ==
    {f \in files : f.path # path} \cup {File(path, content)}

\* pkg_name: "xpath_test_" and the sanitized name of the operation (the
\* sanitized names of the operations are pairwise distinct)
pkg_name(function_name_) == [prefix |-> "xpath_test_", of |-> function_name_]

nargo_toml(function_name_) ==
    [package |-> pkg_name(function_name_), type |-> "lib", dependencies |-> <<"xpath">>]

\* the operations whose lower-cased name contains "datetime"
NamesDateTime ==
    {"fn:year-from-dateTime", "fn:month-from-dateTime", "fn:day-from-dateTime",
     "fn:hours-from-dateTime", "fn:minutes-from-dateTime", "fn:seconds-from-dateTime",
     "fn:timezone-from-dateTime", "op:dateTime-equal", "op:dateTime-less-than",
     "op:dateTime-greater-than", "op:add-dayTimeDuration-to-dateTime",
     "op:subtract-dayTimeDuration-from-dateTime", "op:subtract-dateTimes"}

\* the operations whose lower-cased name contains "duration"
NamesDuration ==
    {"fn:days-from-duration", "fn:hours-from-duration", "fn:minutes-from-duration",
     "fn:seconds-from-duration", "op:add-dayTimeDuration-to-dateTime",
     "op:subtract-dayTimeDuration-from-dateTime", "op:add-dayTimeDurations",
     "op:subtract-dayTimeDurations", "op:dayTimeDuration-equal",
     "op:dayTimeDuration-less-than", "op:dayTimeDuration-greater-than"}

\* "float" is in the operation's name or in its primitive's name
NamesFloat ==
    {f \in DOMAIN FLOAT_FUNCTION_TYPES : FLOAT_FUNCTION_TYPES[f] = "float"}
    \cup {"xs:float-from-int", "xs:integer-from-float", "xs:float-from-double"}

\* "double" is in the operation's name or in its primitive's name
NamesDouble ==
    {f \in DOMAIN FLOAT_FUNCTION_TYPES : FLOAT_FUNCTION_TYPES[f] = "double"}
    \cup {"xs:double-from-int", "xs:integer-from-double", "xs:float-from-double"}

\* the names imported from dep::xpath, in the order they are listed
imports(function_name_) ==
    (IF function_name_ \in DOMAIN FUNCTION_MAP THEN <<FUNCTION_MAP[function_name_]>> ELSE <<>>)
    \o (IF function_name_ \in NamesDateTime
        THEN <<"datetime_from_epoch_microseconds_with_tz">> ELSE <<>>)
    \o (IF function_name_ \in NamesDuration THEN <<"duration_from_microseconds">> ELSE <<>>)
    \o (IF function_name_ \in NamesFloat THEN <<"XsdFloat">> ELSE <<>>)
    \o (IF function_name_ \in NamesDouble THEN <<"XsdDouble">> ELSE <<>>)

\* a split that keeps only the full chunks
FullChunksOnly(converted, size) ==
    [i \in 1..(Len(converted) \div size) |->
        SubSeq(converted, (i - 1) * size + 1, i * size)]

\* [converted_tests[i:i + chunk_size] for i in range(0, len, chunk_size)]
chunks(converted, size) ==
    [i \in 1..((Len(converted) + size - 1) \div size) |->
        SubSeq(converted, (i - 1) * size + 1,
               IF i * size < Len(converted) THEN i * size ELSE Len(converted))]

\* src/lib.nr: the header naming the operation and "mod chunk_<i>;" for
\* i = 0 .. mods - 1
lib_nr(function_name_, mods) == [of |-> function_name_, mods |-> mods]

\* src/chunk_<i>.nr: the header, the imports and the tests of the chunk
chunk_nr(function_name_, i, chunk) ==
    [of |-> function_name_, chunk |-> i, contains |-> Len(chunk),
     imports |-> imports(function_name_), tests |-> chunk]

\* the files after chunk files 0 .. n - 1 are written
RECURSIVE WriteChunks(_, _, _, _)
WriteChunks(files, function_name_, cs, n) ==
    IF n = 0 THEN files
    ELSE write_text(WriteChunks(files, function_name_, cs, n - 1),
                    ChunkPath(n - 1), chunk_nr(function_name_, n - 1, cs[n]))

\* the package directory after the manifest, lib.nr and the chunk files
\* are written over what the directory held
WrittenPackage(dir, function_name_, converted, size) ==
    LET before == IF dir = None THEN {} ELSE dir.files
        cs == chunks(converted, size)
        f1 == write_text(before, NargoPath, nargo_toml(function_name_))
        f2 == write_text(f1, LibPath, lib_nr(function_name_, Len(cs)))
    IN  Dir(WriteChunks(f2, function_name_, cs, Len(cs)))

\* a package an earlier run wrote for the operation, with three chunks
StaleTest == [kind |-> "test", name |-> <<"o", "l", "d">>]
EarlierPackage(function_name_) ==
    WrittenPackage(None, function_name_, <<StaleTest, StaleTest, StaleTest>>, 1)

\* chunk_size: the default, and for a run of several tests the small ones
\* that split it
DefaultChunkSize == 50
ChunkSizes(ts) == IF Len(ts) > 1 THEN {1, 2, DefaultChunkSize} ELSE {DefaultChunkSize}

----------------------------------------------------------------------------
(* generate_test_package(function_name, tests, output_dir, chunk_size)      *)

Init ==
    /\ function_name \in FunctionNames
    /\ tests \in TestLists(function_name)
    /\ chunk_size \in ChunkSizes(tests)
    /\ pkg_dir \in {None, EarlierPackage(function_name)}
    /\ position = 0
    /\ pc = "loop"
    /\ noir_test = None
    /\ converted_tests = <<>>
    /\ skipped = 0
    /\ returned = None
    /\ MainIdle
    /\ BenchIdle

\* one iteration: "noir_test = generate_noir_test(test, function_name)" and
\* the count; an exception leaves the loop and the function
LoopBody ==
    /\ pc = "loop"
    /\ position < Len(tests)
    /\ \E r \in {generate_noir_test(tests[position + 1], function_name)} :
           /\ noir_test' = r
           /\ IF r = Raises
              THEN /\ pc' = "raised"
                   /\ UNCHANGED <<position, converted_tests, skipped>>
              ELSE /\ position' = position + 1
                   /\ pc' = "loop"
                   /\ IF r # None /\ r.kind # "skip"
                      THEN /\ converted_tests' = Append(converted_tests, r)
                           /\ UNCHANGED skipped
                      ELSE /\ skipped' = skipped + 1
                           /\ UNCHANGED converted_tests
    /\ UNCHANGED <<function_name, tests, chunk_size, pkg_dir, returned>>
    /\ UNCHANGED <<main_vars, bench_vars>>

\* the list is exhausted
LoopExit ==
    /\ pc = "loop"
    /\ position = Len(tests)
    /\ pc' = "converted"
    /\ UNCHANGED <<function_name, tests, position, noir_test, converted_tests, skipped,
                   chunk_size, pkg_dir, returned>>
    /\ UNCHANGED <<main_vars, bench_vars>>

\* "if not converted_tests:" the package directory is removed when there is
\* one, and the function returns 0
RemovePackage ==
    /\ pc = "converted"
    /\ converted_tests = <<>>
    /\ pkg_dir' = None
    /\ returned' = 0
    /\ pc' = "returned"
    /\ UNCHANGED <<function_name, tests, position, noir_test, converted_tests, skipped,
                   chunk_size>>
    /\ UNCHANGED <<main_vars, bench_vars>>

\* the directory is created when it is missing, Nargo.toml, src/lib.nr and
\* the chunk files are written, and the function returns the number of
\* converted tests
WritePackage ==
    /\ pc = "converted"
    /\ converted_tests # <<>>
    /\ pkg_dir' = WrittenPackage(pkg_dir, function_name, converted_tests, chunk_size)
    /\ returned' = Len(converted_tests)
    /\ pc' = "returned"
    /\ UNCHANGED <<function_name, tests, position, noir_test, converted_tests, skipped,
                   chunk_size>>
    /\ UNCHANGED <<main_vars, bench_vars>>

Next == LoopBody \/ LoopExit \/ RemovePackage \/ WritePackage

Spec == Init /\ [][Next]_vars


----------------------------------------------------------------------------
(* Properties of the conversion loop.  After an iteration noir_test holds   *)
(* what generate_noir_test returned for the test the loop just handled.     *)

\* the loop has called generate_noir_test at least once
Ran == position > 0 \/ pc = "raised"

\* the test the last call was made for
LastTest == tests[IF pc = "raised" THEN position + 1 ELSE position]

IsTest(r) == r # None /\ r # Raises /\ r.kind = "test"
IsSkip(r) == r # None /\ r # Raises /\ r.kind = "skip"

\* the call expression of an emitted test
CallOf(r) == r.assertions[1].call

\* the integer literals written as arguments of the call expression
CallIntLiterals(r) ==
    {CallOf(r).args[j].v : j \in {j \in 1..Len(CallOf(r).args) : CallOf(r).args[j].t = "int"}}

\* the integer literals the assertions compare the call's integer result to
\* (bit patterns compared to .to_bits() are not integer results)
AssertionIntLiterals(r) ==
    {r.assertions[j].rhs.v :
        j \in {j \in 1..Len(r.assertions) :
                  r.assertions[j].rhs.t = "int" /\ r.assertions[j].method # ".to_bits()"}}

\* C1: no emitted test contains, in its call expression or its assertion,
\* an integer literal outside [-2^63, 2^63 - 1]; an operand or a declared
\* expected value outside that range gives a skip instead of a test.
C1_NoIntegerLiteralOutsideI64 ==
    (Ran /\ IsTest(noir_test)) =>
        \A n \in CallIntLiterals(noir_test) \cup AssertionIntLiterals(noir_test) :
            _fits_in_i64(n)


\* the kind of a declared expected value, by the decoder that accepts it
ExpectedKind(expected) ==
    IF parse_integer(expected) # None THEN "integer"
    ELSE IF parse_boolean(expected) # None THEN "boolean"
    ELSE IF parse_float(expected) # None THEN "float"
    ELSE "other"

\* the primitives whose result is an integer (Option<i64> for the casts)
integer_returning_functions ==
    {"abs_int", "ceil_int", "floor_int", "round_int", "numeric_add_int",
     "numeric_subtract_int", "numeric_multiply_int", "numeric_divide_int",
     "numeric_mod_int", "numeric_unary_plus_int", "numeric_unary_minus_int",
     "year_from_datetime"}
    \cup unsigned_return_functions \cup option_int_returning_functions

\* the return category of a primitive
ReturnCategory(noir_func) ==
    IF noir_func \in boolean_returning_functions THEN "boolean"
    ELSE IF noir_func \in float_returning_functions \cup double_returning_functions
    THEN "float"
    ELSE IF noir_func \in integer_returning_functions THEN "integer"
    ELSE "other"

\* an integer, boolean or float expected value declared for a primitive of
\* another of the three categories
KindDisagrees(t, noir_func) ==
    /\ ExpectedKind(t.expected_result) \in {"integer", "boolean", "float"}
    /\ ReturnCategory(noir_func) \in {"integer", "boolean", "float"}
    /\ ExpectedKind(t.expected_result) # ReturnCategory(noir_func)

\* C2: with result kind assert-eq, a declared expected value whose kind
\* (integer, boolean, float) disagrees with the return category of the
\* primitive never gives an assertion: the outcome is a skip.
C2_KindMismatchSkips ==
    (/\ Ran
     /\ function_name \in DOMAIN FUNCTION_MAP
     /\ LastTest.result_type = "assert-eq"
     /\ ~HasUnsupportedDependency(LastTest)
     /\ KindDisagrees(LastTest, FUNCTION_MAP[function_name]))
    => IsSkip(noir_test)


\* the values a skip comment interpolates under the tag
SkipParts(r, tag) ==
    UNION {{r.lines[i].parts[j].x :
               j \in {j \in 1..Len(r.lines[i].parts) : r.lines[i].parts[j].tag = tag}} :
           i \in 1..Len(r.lines)}

\* C3: whenever generate_noir_test returns without a test body it returns a
\* skip comment that contains the expression text and the declared expected
\* value; it never returns None.
C3_SkipCarriesExpressionAndExpected ==
    (Ran /\ noir_test # Raises /\ ~IsTest(noir_test)) =>
        /\ IsSkip(noir_test)
        /\ LastTest.test_expr \in SkipParts(noir_test, "test_expr")
        /\ LastTest.expected_result \in SkipParts(noir_test, "expected_result")

\* some dependency entry contains one of the three unsupported feature names
NamesUnsupportedFeature(t) ==
    \E i \in 1..Len(t.dependencies) :
        \E name \in {"schemaValidation", "schemaImport", "staticTyping"} :
            \E k \in 1..Len(t.dependencies[i]) :
                /\ k + Len(name) - 1 <= Len(t.dependencies[i])
                /\ SubSeq(t.dependencies[i], k, k + Len(name) - 1) = Chars(name)

\* C4: a test with a dependency entry containing schemaValidation,
\* schemaImport or staticTyping never gets a test body, whatever its
\* expression, operation and declared result, and the loop of
\* generate_test_package counts it as skipped.
C4_UnsupportedDependencySkipped ==
    [][(/\ pc = "loop"
        /\ position < Len(tests)
        /\ NamesUnsupportedFeature(tests[position + 1]))
       => (/\ ~IsTest(noir_test')
           /\ skipped' = skipped + 1
           /\ converted_tests' = converted_tests)]_vars

\* a run where the second test names an unsupported feature and was counted
\* as skipped after the first one had been converted
C4_Witness ==
    /\ position = 2
    /\ NamesUnsupportedFeature(tests[2])
    /\ ~NamesUnsupportedFeature(tests[1])
    /\ Len(converted_tests) = 1
    /\ skipped = 1


\* the operands of an expression: the arguments of a call, the sides of an
\* operator
OperandsOf(tree) ==
    LET args == IF tree.symbol = ":" /\ Len(tree.children) = 2
                THEN tree.children[2].children ELSE tree.children
    IN  {args[j] : j \in 1..Len(args)}

\* the values of the xs:dateTime literals among the operands
DateTimeLiteralsOf(tree) ==
    {o.children[2].evaluate :
        o \in {o \in OperandsOf(tree) :
                  /\ o.symbol = ":" /\ Len(o.children) = 2
                  /\ o.children[2].symbol = "dateTime"
                  /\ Len(o.children[2].children) = 1}}

\* the literal denotes an instant before 1970-01-01T00:00:00Z (for the years
\* of the corpus: before 1970, or on 1970-01-01 in a zone east of the time
\* of day)
BeforeEpoch(x) ==
    \/ x.year < 1970
    \/ /\ x.year = 1970 /\ x.month = 1 /\ x.day = 1 /\ x.tzinfo # None
       /\ x.hour * 60 + x.minute < x.tzinfo.offset

\* the epoch-microsecond arguments of the dateTime setup statements
EpochMicrosOf(setup) ==
    {setup[j].args[1] :
        j \in {j \in 1..Len(setup) :
                  setup[j].ctor = "datetime_from_epoch_microseconds_with_tz"}}

\* C5: every translation convert_xpath_expr returns has only non-negative
\* epoch microseconds in its dateTime setup statements, and an expression
\* with a dateTime operand before 1970-01-01T00:00:00Z is rejected for every
\* operation.
C5_NoPreEpochDateTime ==
    Ran =>
        LET conversion == convert_xpath_expr(LastTest.test_expr, function_name)
        IN  /\ conversion # None =>
                  \A n \in EpochMicrosOf(conversion.setup) : IntLeq(IntOf(0), n)
            /\ (\E x \in DateTimeLiteralsOf(LastTest.test_expr.tree) : BeforeEpoch(x))
                  => conversion = None

\* a run of op:dateTime-equal that converted a comparison of two dateTimes
\* after the epoch, with two setup statements, and then skipped a comparison
\* with an operand of 1969
C5_Witness ==
    /\ function_name = "op:dateTime-equal"
    /\ position = 2
    /\ Len(converted_tests) = 1
    /\ Cardinality(EpochMicrosOf(converted_tests[1].setup)) = 1
    /\ Len(converted_tests[1].setup) = 2
    /\ \E x \in DateTimeLiteralsOf(tests[2].test_expr.tree) : BeforeEpoch(x)
    /\ IsSkip(noir_test)
    /\ skipped = 1


\* the expression is "source cast as xs:<target>" or "xs:<target>(source)"
IsCastTo(tree, target) ==
    \/ /\ tree.symbol = "cast" /\ Len(tree.children) = 2
       /\ tree.children[2].children[2].value = target
    \/ /\ tree.symbol = ":" /\ Len(tree.children) = 2
       /\ tree.children[1].value = "xs"
       /\ tree.children[2].symbol = target
       /\ Len(tree.children[2].children) = 1

\* the source token of such an expression
CastSource(tree) ==
    IF tree.symbol = "cast" THEN tree.children[1] ELSE tree.children[2].children[1]

\* the source of the last test's cast evaluates to the integer v
LastCastsInteger(target) ==
    /\ LastTest.test_expr.parses
    /\ ~NamesUnsupportedFeature(LastTest)
    /\ IsCastTo(LastTest.test_expr.tree, target)
    /\ CastSource(LastTest.test_expr.tree).evaluate.k = "int"

\* what C6 says of a cast of the integer v by the primitive fn
CastOfInteger(v, fn) ==
    LET conversion == convert_xpath_expr(LastTest.test_expr, function_name)
    IN  IF IntLess(v, IntOf(-128)) \/ IntLess(IntOf(127), v)
        THEN conversion = None /\ IsSkip(noir_test)
        ELSE /\ conversion # None
             /\ conversion.setup = <<>>
             /\ conversion.call = [fn |-> fn, args |-> <<[t |-> "int", v |-> v]>>]

\* C6: for xs:float-from-int and xs:double-from-int, in constructor and in
\* 'cast as' syntax, an integer source below -128 or above 127 is rejected
\* and the test is a skip whatever the declared result; a source v in
\* [-128, 127] gives the call cast_integer_to_float(v) or
\* cast_integer_to_double(v) with v unchanged.
C6_IntegerCastsWithinI8 ==
    /\ (Ran /\ function_name = "xs:float-from-int" /\ LastCastsInteger("float"))
          => CastOfInteger(CastSource(LastTest.test_expr.tree).evaluate.i,
                           "cast_integer_to_float")
    /\ (Ran /\ function_name = "xs:double-from-int" /\ LastCastsInteger("double"))
          => CastOfInteger(CastSource(LastTest.test_expr.tree).evaluate.i,
                           "cast_integer_to_double")

\* a run of xs:float-from-int that converted "-128 cast as xs:float" to the
\* call cast_integer_to_float(-128) and then skipped xs:float(128)
C6_Witness ==
    /\ function_name = "xs:float-from-int"
    /\ position = 2
    /\ Len(converted_tests) = 1
    /\ CallOf(converted_tests[1]) =
          [fn |-> "cast_integer_to_float", args |-> <<[t |-> "int", v |-> IntOf(-128)]>>]
    /\ LastCastsInteger("float")
    /\ CastSource(LastTest.test_expr.tree).evaluate.i = IntOf(128)
    /\ IsSkip(noir_test)


\* the integer, float and double variants of each operator that has them
VariantFamilies ==
    {<<"op:numeric-add", "op:numeric-add-float", "op:numeric-add-double">>,
     <<"op:numeric-subtract", "op:numeric-subtract-float", "op:numeric-subtract-double">>,
     <<"op:numeric-multiply", "op:numeric-multiply-float", "op:numeric-multiply-double">>,
     <<"op:numeric-divide", "op:numeric-divide-float", "op:numeric-divide-double">>,
     <<"op:numeric-equal", "op:numeric-equal-float", "op:numeric-equal-double">>,
     <<"op:numeric-less-than", "op:numeric-less-than-float", "op:numeric-less-than-double">>,
     <<"op:numeric-greater-than", "op:numeric-greater-than-float", "op:numeric-greater-than-double">>,
     <<"fn:round", "fn:round-float", "fn:round-double">>,
     <<"fn:ceiling", "fn:ceiling-float", "fn:ceiling-double">>,
     <<"fn:floor", "fn:floor-float", "fn:floor-double">>}

\* the variants of the operator of the operation f
VariantsOf(f) ==
    UNION {{fam[1], fam[2], fam[3]} : fam \in {fam \in VariantFamilies :
                                                 f \in {fam[1], fam[2], fam[3]}}}

\* C7: a non-cast operation that declares the float or the double variant
\* rejects every expression whose detected operand type differs from the
\* variant, and one that declares none rejects every expression detected as
\* float or double; so at most one of the integer, float and double variants
\* of an operator translates a given expression.
C7_VariantFilter ==
    (Ran /\ function_name \in DOMAIN FUNCTION_MAP
         /\ function_name \notin DOMAIN CAST_FUNCTION_PATTERNS) =>
        LET expr == LastTest.test_expr
            detected_type == detect_operand_type(expr.text)
        IN  /\ (/\ function_name \in DOMAIN FLOAT_FUNCTION_TYPES
                /\ FLOAT_FUNCTION_TYPES[function_name] # detected_type)
                  => convert_xpath_expr(expr, function_name) = None
            /\ (/\ function_name \notin DOMAIN FLOAT_FUNCTION_TYPES
                /\ detected_type \in {"float", "double"})
                  => convert_xpath_expr(expr, function_name) = None
            /\ Cardinality({f \in VariantsOf(function_name) :
                               convert_xpath_expr(expr, f) # None}) <= 1

\* op:numeric-add-float translated an expression over xs:float operands that
\* op:numeric-add and op:numeric-add-double both reject
C7_Witness ==
    /\ Ran
    /\ function_name = "op:numeric-add-float"
    /\ detect_operand_type(LastTest.test_expr.text) = "float"
    /\ IsTest(noir_test)
    /\ convert_xpath_expr(LastTest.test_expr, "op:numeric-add") = None
    /\ convert_xpath_expr(LastTest.test_expr, "op:numeric-add-double") = None


\* the last test is a parsed expression "x1 eq x2" over two xs:dateTime
\* literals that both name a zone and lie at or after the epoch
LastComparesPostEpochDateTimes ==
    LET tree == LastTest.test_expr.tree
    IN  /\ LastTest.test_expr.parses
        /\ ~NamesUnsupportedFeature(LastTest)
        /\ tree.symbol = "eq"
        /\ Cardinality(DateTimeLiteralsOf(tree)) >= 1
        /\ \A o \in OperandsOf(tree) : o.symbol = ":" /\ o.children[2].symbol = "dateTime"
        /\ \A x \in DateTimeLiteralsOf(tree) :
              x.tzinfo # None /\ x.microsecond = 0 /\ ~BeforeEpoch(x)

\* C8: an 'eq' comparison of two explicit post-epoch xs:dateTime literals
\* translated for op:dateTime-equal has exactly the two setup statements dt1
\* and dt2, and its assertion expects the truth value of the comparison,
\* carried in embedded_expected, not the declared result.
C8_DateTimeEqualUsesEmbeddedTruth ==
    (Ran /\ function_name = "op:dateTime-equal" /\ LastComparesPostEpochDateTimes) =>
        LET conversion == convert_xpath_expr(LastTest.test_expr, function_name)
            truth == Cardinality(DateTimeLiteralsOf(LastTest.test_expr.tree)) = 1
        IN  /\ conversion # None
            /\ Len(conversion.setup) = 2
            /\ conversion.setup[1].var = "dt1" /\ conversion.setup[2].var = "dt2"
            /\ \A j \in 1..2 :
                  conversion.setup[j].ctor = "datetime_from_epoch_microseconds_with_tz"
            /\ conversion.embedded_expected # None
            /\ IsTest(noir_test)
            /\ noir_test.assertions
                  = <<[call |-> conversion.call, method |-> "",
                       rhs |-> [t |-> "bool", v |-> truth]]>>

\* the integer a declared expected value writes: [-]digits, bare or wrapped
\* in xs:integer('..')
IntegerBody(x) ==
    IF Len(x) > 14 /\ SubSeq(x, 1, 12) = Chars("xs:integer('")
                   /\ SubSeq(x, Len(x) - 1, Len(x)) = Chars("')")
    THEN SubSeq(x, 13, Len(x) - 2) ELSE x
UnsignedBody(x) ==
    IF IntegerBody(x) # <<>> /\ Head(IntegerBody(x)) = "-" THEN Tail(IntegerBody(x))
    ELSE IntegerBody(x)
IsIntegerText(x) ==
    UnsignedBody(x) # <<>> /\ \A i \in 1..Len(UnsignedBody(x)) : UnsignedBody(x)[i] \in DigitChars
IntegerOfText(x) ==
    MkInt(Head(IntegerBody(x)) = "-",
          [i \in 1..Len(UnsignedBody(x)) |-> IndexIn(Digits09, UnsignedBody(x)[i]) - 1])

\* the last test is a parsed expression "a + b" over two integers of the
\* signed 64-bit range
LastAddsIntegers ==
    LET tree == LastTest.test_expr.tree
    IN  /\ LastTest.test_expr.parses
        /\ ~NamesUnsupportedFeature(LastTest)
        /\ tree.symbol = "+" /\ Len(tree.children) = 2
        /\ \A j \in 1..2 : /\ tree.children[j].symbol \in {"(integer)", "-"}
                           /\ tree.children[j].evaluate.k = "int"
                           /\ _fits_in_i64(tree.children[j].evaluate.i)

\* the digits of the declared integer e are no more than int() converts:
\* sys.get_int_max_str_digits() is 4300
WithinDigitLimit(e) == Len(UnsignedBody(e)) <= 4300

\* 'a + b' over integers of the signed 64-bit range translated for
\* op:numeric-add has an empty setup and the call numeric_add_int(a, b) with
\* a and b unchanged, and with a declared assert-eq integer e (within the
\* digit limit, if limited) the test asserts numeric_add_int(a, b) == e
AdditionAsserted(limited) ==
    (Ran /\ function_name = "op:numeric-add" /\ LastAddsIntegers) =>
        LET tree == LastTest.test_expr.tree
            conversion == convert_xpath_expr(LastTest.test_expr, function_name)
            call == [fn |-> "numeric_add_int",
                     args |-> <<[t |-> "int", v |-> tree.children[1].evaluate.i],
                                [t |-> "int", v |-> tree.children[2].evaluate.i]>>]
            e == LastTest.expected_result
        IN  /\ conversion # None
            /\ conversion.setup = <<>>
            /\ conversion.call = call
            /\ (/\ LastTest.result_type = "assert-eq"
                /\ IsIntegerText(e)
                /\ limited => WithinDigitLimit(e)) =>
                  /\ IsTest(noir_test)
                  /\ noir_test.setup = <<>>
                  /\ noir_test.assertions
                        = <<[call |-> call, method |-> "",
                             rhs |-> [t |-> "int", v |-> IntegerOfText(e)]]>>

\* C9: for integers a and b of the signed 64-bit range, 'a + b' translated
\* for op:numeric-add has an empty setup and the call numeric_add_int(a, b)
\* with a and b unchanged; with a declared assert-eq integer e the test
\* asserts numeric_add_int(a, b) == e.
C9_IntegerAddition == AdditionAsserted(FALSE)

\* C9 for a declared integer of at most 4300 digits
C9_WithinDigitLimit == AdditionAsserted(TRUE)

\* "5 + 3" with a declared result of 4301 digits: parse_integer raised
\* ValueError and no test was generated
C9_Raised ==
    /\ pc = "raised"
    /\ function_name = "op:numeric-add"
    /\ LastAddsIntegers
    /\ LastTest.result_type = "assert-eq"
    /\ LastTest.expected_result = DigitsText("", FALSE, Digits4301)

\* "5 + 3" with the declared result 8 became numeric_add_int(5, 3) == 8
C9_Witness ==
    /\ Ran
    /\ function_name = "op:numeric-add"
    /\ LastAddsIntegers
    /\ LastTest.result_type = "assert-eq"
    /\ LastTest.expected_result = DigitsText("", FALSE, <<8>>)
    /\ IsTest(noir_test)
    /\ noir_test.assertions
          = <<[call |-> [fn |-> "numeric_add_int",
                         args |-> <<[t |-> "int", v |-> IntOf(5)],
                                    [t |-> "int", v |-> IntOf(3)]>>],
               method |-> "", rhs |-> [t |-> "int", v |-> IntOf(8)]]>>

\* the operations whose primitive returns a boolean
BooleanOperations ==
    {"fn:not", "op:boolean-equal", "op:boolean-less-than", "op:boolean-greater-than",
     "op:dateTime-equal", "op:dateTime-less-than", "op:dateTime-greater-than",
     "op:dayTimeDuration-equal", "op:dayTimeDuration-less-than",
     "op:dayTimeDuration-greater-than",
     "op:numeric-equal", "op:numeric-less-than", "op:numeric-greater-than",
     "op:numeric-equal-float", "op:numeric-less-than-float",
     "op:numeric-greater-than-float",
     "op:numeric-equal-double", "op:numeric-less-than-double",
     "op:numeric-greater-than-double"}

\* C10: for a boolean-returning primitive a declared assert-true
\* (assert-false) gives the assertion call == true (call == false); for a
\* primitive that does not return a boolean a declared assert-true or
\* assert-false always gives a skip.
C10_AssertTrueFalse ==
    (/\ Ran
     /\ function_name \in DOMAIN FUNCTION_MAP
     /\ ~NamesUnsupportedFeature(LastTest)
     /\ LastTest.result_type \in {"assert-true", "assert-false"}) =>
        LET conversion == convert_xpath_expr(LastTest.test_expr, function_name)
        IN  IF function_name \in BooleanOperations
            THEN conversion # None =>
                    /\ IsTest(noir_test)
                    /\ noir_test.assertions
                          = <<[call |-> conversion.call, method |-> "",
                               rhs |-> [t |-> "bool",
                                        v |-> LastTest.result_type = "assert-true"]]>>
            ELSE IsSkip(noir_test)

\* fn:not(true()) with assert-true became assert(fn_not(true) == true)
C10_Witness ==
    /\ Ran
    /\ function_name = "fn:not"
    /\ LastTest.result_type = "assert-true"
    /\ IsTest(noir_test)
    /\ noir_test.assertions
          = <<[call |-> [fn |-> "fn_not", args |-> <<[t |-> "bool", v |-> TRUE]>>],
               method |-> "", rhs |-> [t |-> "bool", v |-> TRUE]]>>

----------------------------------------------------------------------------
(* Expected values of float- and double-returning primitives.               *)

\* the declared expected texts that denote zero: 0, 0.0, -0.0 and 0e400
ZeroTexts ==
    {DigitsText("", FALSE, <<0>>), DecimalText("xs:float", FALSE, <<0>>, <<0>>),
     DecimalText("", TRUE, <<0>>, <<0>>), WordText("", Chars("0e400"))}

\* the IEEE-754 single-precision pattern of the number a declared expected
\* text denotes (8, 8, -1, 2^63, -2^63, 1.5, +1.5, 4.0, -2.5, +Inf, NaN, and -NaN
\* with the sign bit set); 2^128, 10^400 and the number of 4301 digits are
\* beyond the largest finite single, so they round to +Inf
Binary32Pattern(x) ==
    CASE x = DigitsText("", FALSE, <<8>>) -> <<1,0,9,0,5,1,9,0,4,0>>
      [] x = DigitsText("xs:integer", FALSE, <<8>>) -> <<1,0,9,0,5,1,9,0,4,0>>
      [] x = DigitsText("", TRUE, <<1>>) -> <<3,2,1,2,8,3,6,8,6,4>>
      [] x = DigitsText("", FALSE, Int63) -> <<1,5,9,3,8,3,5,5,2,0>>
      [] x = DigitsText("", TRUE, Int63p1) -> <<3,7,4,1,3,1,9,1,6,8>>
      [] x = DecimalText("xs:float", FALSE, <<1>>, <<5>>) -> <<1,0,6,9,5,4,7,5,2,0>>
      [] x = WordText("xs:float", Chars("+1.5")) -> <<1,0,6,9,5,4,7,5,2,0>>
      [] x = DecimalText("", FALSE, <<4>>, <<0>>) -> <<1,0,8,2,1,3,0,4,3,2>>
      [] x = DecimalText("xs:double", TRUE, <<2>>, <<5>>) -> <<3,2,2,3,3,2,2,6,2,4>>
      [] x = WordText("xs:double", <<"I", "N", "F">>) -> <<2,1,3,9,0,9,5,0,4,0>>
      [] x = WordText("xs:float", <<"N", "a", "N">>) -> <<2,1,4,3,2,8,9,3,4,4>>
      [] x = WordText("xs:float", <<"I", "n", "f">>) -> <<2,1,3,9,0,9,5,0,4,0>>
      [] x = WordText("xs:double", <<"-", "n", "a", "n">>) -> <<4,2,9,0,7,7,2,9,9,2>>
      [] x = DigitsText("", FALSE, Int128) -> <<2,1,3,9,0,9,5,0,4,0>>
      [] x = DigitsText("", FALSE, Big401) -> <<2,1,3,9,0,9,5,0,4,0>>
      [] x = DigitsText("", FALSE, Digits4301) -> <<2,1,3,9,0,9,5,0,4,0>>

\* the IEEE-754 double-precision pattern of the same numbers; 10^400 and
\* the number of 4301 digits are beyond the largest finite double
Binary64Pattern(x) ==
    CASE x = DigitsText("", FALSE, <<8>>) -> <<4,6,2,0,6,9,3,2,1,7,6,8,2,1,2,8,8,9,6>>
      [] x = DigitsText("xs:integer", FALSE, <<8>>) -> <<4,6,2,0,6,9,3,2,1,7,6,8,2,1,2,8,8,9,6>>
      [] x = DigitsText("", TRUE, <<1>>) -> <<1,3,8,3,0,5,5,4,4,5,5,6,5,4,7,9,3,2,1,6>>
      [] x = DigitsText("", FALSE, Int63) -> <<4,8,9,0,9,0,9,1,9,5,3,2,4,3,5,8,6,5,6>>
      [] x = DigitsText("", TRUE, Int63p1) -> <<1,4,1,1,4,2,8,1,2,3,2,1,7,9,1,3,4,4,6,4>>
      [] x = DecimalText("xs:float", FALSE, <<1>>, <<5>>) -> <<4,6,0,9,4,3,4,2,1,8,6,1,3,7,0,2,6,5,6>>
      [] x = WordText("xs:float", Chars("+1.5")) -> <<4,6,0,9,4,3,4,2,1,8,6,1,3,7,0,2,6,5,6>>
      [] x = DecimalText("", FALSE, <<4>>, <<0>>) -> <<4,6,1,6,1,8,9,6,1,8,0,5,4,7,5,8,4,0,0>>
      [] x = DecimalText("xs:double", TRUE, <<2>>, <<5>>) -> <<1,3,8,3,6,1,8,3,9,5,5,1,8,9,0,0,6,3,3,6>>
      [] x = WordText("xs:double", <<"I", "N", "F">>) -> <<9,2,1,8,8,6,8,4,3,7,2,2,7,4,0,5,3,1,2>>
      [] x = WordText("xs:float", <<"N", "a", "N">>) -> <<9,2,2,1,1,2,0,2,3,7,0,4,1,0,9,0,5,6,0>>
      [] x = WordText("xs:float", <<"I", "n", "f">>) -> <<9,2,1,8,8,6,8,4,3,7,2,2,7,4,0,5,3,1,2>>
      [] x = WordText("xs:double", <<"-", "n", "a", "n">>) ->
            <<1,8,4,4,4,4,9,2,2,7,3,8,9,5,8,6,6,3,6,8>>
      [] x = DigitsText("", FALSE, Int128) -> <<5,1,8,3,6,4,3,1,7,1,1,0,3,4,4,0,8,9,6>>
      [] x = DigitsText("", FALSE, Big401) -> <<9,2,1,8,8,6,8,4,3,7,2,2,7,4,0,5,3,1,2>>
      [] x = DigitsText("", FALSE, Digits4301) -> <<9,2,1,8,8,6,8,4,3,7,2,2,7,4,0,5,3,1,2>>

\* the declared expected texts that denote a number
NumberTexts ==
    ZeroTexts \cup
    {x \in ExpectedTexts : parse_integer(x) # None \/ parse_float(x) # None}

\* the last call was made for a test of a float- or double-returning
\* primitive with a declared assert-eq number, and the expression converts
LastExpectsFloat ==
    /\ Ran
    /\ function_name \in DOMAIN FUNCTION_MAP
    /\ FUNCTION_MAP[function_name] \in float_returning_functions \cup double_returning_functions
    /\ LastTest.result_type = "assert-eq"
    /\ LastTest.expected_result \in NumberTexts
    /\ ~HasUnsupportedDependency(LastTest)
    /\ convert_xpath_expr(LastTest.test_expr, function_name) # None

\* the assertion the claim describes for the call and the expected text x
\* of a primitive that returns the 32-bit (is32) or the 64-bit type
FloatAssertionByPattern(call, x, is32) ==
    IF x \in ZeroTexts
    THEN <<AssertStmt(call, "", ConstArg(IF is32 THEN "XsdFloat::zero()"
                                         ELSE "XsdDouble::zero()"))>>
    ELSE <<AssertStmt(call, ".to_bits()",
                      IntArg(MkInt(FALSE, IF is32 THEN Binary32Pattern(x)
                                          ELSE Binary64Pattern(x))))>>

\* C11: for a float- or double-returning primitive and a declared assert-eq
\* number v, the test asserts value equality with XsdFloat::zero() or
\* XsdDouble::zero() when v is zero, and else compares to_bits() with the
\* IEEE-754 pattern of v in the width of the primitive's return type,
\* whatever type tag the expected literal carries.
C11_FloatExpectedByPattern ==
    LastExpectsFloat =>
        /\ IsTest(noir_test)
        /\ noir_test.assertions =
              FloatAssertionByPattern(CallOf(noir_test), LastTest.expected_result,
                                      FUNCTION_MAP[function_name] \in float_returning_functions)

\* the same for the expected values within the range of the return type
C11_InRange ==
    (LastExpectsFloat /\ pc # "raised") =>
        /\ IsTest(noir_test)
        /\ noir_test.assertions =
              FloatAssertionByPattern(CallOf(noir_test), LastTest.expected_result,
                                      FUNCTION_MAP[function_name] \in float_returning_functions)

C11_Witness ==
    /\ LastExpectsFloat
    /\ FUNCTION_MAP[function_name] \in float_returning_functions
    /\ LastTest.expected_result = DecimalText("xs:double", TRUE, <<2>>, <<5>>)
    /\ IsTest(noir_test)

----------------------------------------------------------------------------
(* The encoding of the operands in a translation record.                    *)

\* the operations of the integer variant
IntegerVariantOperations ==
    {"fn:abs", "fn:ceiling", "fn:floor", "fn:round", "op:numeric-add",
     "op:numeric-subtract", "op:numeric-multiply", "op:numeric-divide",
     "op:numeric-integer-divide", "op:numeric-mod", "op:numeric-equal",
     "op:numeric-less-than", "op:numeric-greater-than", "op:numeric-unary-plus",
     "op:numeric-unary-minus"}

\* what the operands of an operation's primitive are: "float" and "double"
\* for the declared 32-bit and 64-bit variants and for the casts from them,
\* "int" for the integer variant and the casts from integers
OperandEncoding(f) ==
    IF f \in DOMAIN FLOAT_FUNCTION_TYPES THEN FLOAT_FUNCTION_TYPES[f]
    ELSE IF f \in DOMAIN CAST_FUNCTION_PATTERNS THEN CAST_FUNCTION_PATTERNS[f][1]
    ELSE IF f \in IntegerVariantOperations THEN "int"
    ELSE "other"

Pattern32Max == MkInt(FALSE, <<4,2,9,4,9,6,7,2,9,5>>)      \* 2^32 - 1

\* a pattern of 32 bits
IsPattern32(bits) == ~IntIsNegative(bits) /\ IntLeq(bits, Pattern32Max)

\* a pattern of 64 bits of a number of the model: zero, or a value whose
\* exponent field is not zero, which is beyond every 32-bit pattern
IsPattern64(bits) ==
    /\ ~IntIsNegative(bits)
    /\ IsZeroMag(bits.mag) \/ ~IntLeq(bits, Pattern32Max)

\* every operand of the call is a local that the setup builds with ctor
OperandsBuiltBy(c, ctor) ==
    /\ c.setup # <<>>
    /\ \A j \in 1..Len(c.setup) : c.setup[j].ctor = ctor /\ Len(c.setup[j].args) = 1
    /\ \A j \in 1..Len(c.call.args) :
          /\ c.call.args[j].t = "var"
          /\ \E i \in 1..Len(c.setup) : c.setup[i].var = c.call.args[j].v

\* the translation record of the test the last call was made for
LastConversion == convert_xpath_expr(LastTest.test_expr, function_name)

\* the setup of 1.5 op 1.5 in either width
Setup15(ctor, bits) == <<Let("a", ctor, <<MkInt(FALSE, bits)>>), Let("b", ctor, <<MkInt(FALSE, bits)>>)>>

\* C12: a translation record calls exactly the primitive FUNCTION_MAP[op];
\* a 32-bit float primitive gets only XsdFloat::from_bits operands holding
\* 32-bit patterns, a 64-bit one only XsdDouble::from_bits operands holding
\* 64-bit patterns, an integer primitive only bare integer literals, and no
\* record builds operands of both widths.
C12_OperandEncoding ==
    Ran =>
      \A c \in {LastConversion} :
        c # None =>
            /\ function_name \in DOMAIN FUNCTION_MAP
            /\ c.call.fn = FUNCTION_MAP[function_name]
            /\ OperandEncoding(function_name) = "float" =>
                  /\ OperandsBuiltBy(c, "XsdFloat::from_bits")
                  /\ \A j \in 1..Len(c.setup) : IsPattern32(c.setup[j].args[1])
                  /\ LastTest.test_expr.tree = BinaryOp("+", F15, F15) =>
                        c.setup = Setup15("XsdFloat::from_bits", <<1,0,6,9,5,4,7,5,2,0>>)
            /\ OperandEncoding(function_name) = "double" =>
                  /\ OperandsBuiltBy(c, "XsdDouble::from_bits")
                  /\ \A j \in 1..Len(c.setup) : IsPattern64(c.setup[j].args[1])
                  /\ LastTest.test_expr.tree = BinaryOp("eq", D15, D15) =>
                        c.setup =
                            Setup15("XsdDouble::from_bits", <<4,6,0,9,4,3,4,2,1,8,6,1,3,7,0,2,6,5,6>>)
            /\ OperandEncoding(function_name) = "int" =>
                  /\ c.setup = <<>>
                  /\ \A j \in 1..Len(c.call.args) : c.call.args[j].t = "int"
            /\ ~\E i, j \in 1..Len(c.setup) :
                  /\ c.setup[i].ctor = "XsdFloat::from_bits"
                  /\ c.setup[j].ctor = "XsdDouble::from_bits"

C12_Witness ==
    /\ Ran
    /\ LastConversion # None
    /\ function_name = "op:numeric-add-float"
    /\ LastTest.test_expr.tree = BinaryOp("+", F15, F15)
    /\ IsTest(noir_test)

----------------------------------------------------------------------------
(* Epoch microseconds of a dateTime literal.                                *)

\* the magnitude s * 10^6 + us as digits
PadLeft(ds, n) ==
    IF Len(ds) >= n THEN ds
    ELSE [k \in 1..n |-> IF k <= n - Len(ds) THEN 0 ELSE ds[k - (n - Len(ds))]]
MicrosMag(s, us) == StripZeros(NatDigits(s) \o PadLeft(NatDigits(us), 6))

\* the whole seconds from 1970-01-01T00:00:00Z to the second of the
\* literal's UTC instant
EpochSeconds(x) ==
    DaysFromCivil(x.year, x.month, x.day) * 86400 + x.hour * 3600 + x.minute * 60
      + x.second - x.tzinfo.offset * 60

\* the microseconds from 1970-01-01T00:00:00Z to the literal's UTC instant,
\* EpochSeconds * 10^6 + microsecond, in integer arithmetic
ExactEpochMicros(x) ==
    IF EpochSeconds(x) >= 0 THEN MkInt(FALSE, MicrosMag(EpochSeconds(x), x.microsecond))
    ELSE IF x.microsecond = 0 THEN MkInt(TRUE, MicrosMag(-EpochSeconds(x), 0))
    ELSE MkInt(TRUE, MicrosMag(-EpochSeconds(x) - 1, 1000000 - x.microsecond))

\* the dateTime literals with an explicit zone among the operands of the
\* test the last call was made for
LastZonedLiterals ==
    {x \in DateTimeLiteralsOf(LastTest.test_expr.tree) : x.tzinfo # None}

\* C20: for every valid dateTime literal with an explicit zone offset,
\* _datetime_to_epoch returns the exact number of microseconds from
\* 1970-01-01T00:00:00Z to the literal's UTC instant, with no error of a
\* microsecond, and the literal's offset in minutes.
C20_EpochMicrosExact ==
    Ran =>
        \A x \in LastZonedLiterals :
            _datetime_to_epoch(x) =
                [utc_micros |-> ExactEpochMicros(x), tz_offset |-> IntOf(x.tzinfo.offset)]

\* the same for the literals without a fraction of a second
C20_WholeSeconds ==
    Ran =>
        \A x \in {x \in LastZonedLiterals : x.microsecond = 0} :
            _datetime_to_epoch(x) =
                [utc_micros |-> ExactEpochMicros(x), tz_offset |-> IntOf(x.tzinfo.offset)]

----------------------------------------------------------------------------
(* The package directory when no test converts.                             *)

\* generate_test_package is over: it returned, or an exception left it
Over == pc \in {"returned", "raised"}

\* C14: when no test of the operation converts, generate_test_package
\* removes the package directory of the operation if there is one, creates
\* no directory or file, and returns 0.
C14_NoConversionRemovesPackage ==
    (Over /\ converted_tests = <<>>) =>
        /\ pc = "returned"
        /\ returned = 0
        /\ pkg_dir = None

\* the same for the calls in which no conversion raised
C14_WhenLoopCompletes ==
    (pc = "returned" /\ converted_tests = <<>>) =>
        /\ returned = 0
        /\ pkg_dir = None

\* ------------------------------------------------------------------------
\* benchmark_gates.py: the gate-count benchmark and its history file
\* ------------------------------------------------------------------------

\* The operations benchmarked, in catalog order.  The catalog of the source
\* has sixteen entries; every one is handled by the same loop body, and the
\* model runs the loop over the first two.
BENCHMARKS == <<"numeric_add_int", "numeric_subtract_int">>

\* benchmark_all is run this many times in a row on one history file
MaxRuns == 2

\* The result entry of one operation: a dict with the keys "error",
\* "compile_output", "acir_opcodes" and "brillig_opcodes", each present or
\* absent.  A key is modelled by the set of its values: empty when absent.
Info(error, compile_output, acir_opcodes, brillig_opcodes) ==
    [error |-> error, compile_output |-> compile_output,
     acir_opcodes |-> acir_opcodes, brillig_opcodes |-> brillig_opcodes]

\* One cell of a line of the table `nargo info` prints, after strip():
\* a decimal literal int() accepts, or any other word
IntCell(n) == [lex |-> "int", n |-> n, w |-> ""]
WordCell(w) == [lex |-> "word", n |-> 0, w |-> w]

\* One line of the table: whether it contains '| main', and the non-empty
\* cells between its bars
TableLine(main, parts) == [main |-> main, parts |-> parts]

\* A completed subprocess
Completed(returncode, stdout, stderr) ==
    [k |-> "completed", returncode |-> returncode, stdout |-> stdout, stderr |-> stderr]

\* subprocess.run found no executable, or the project could not be written
Raised(message) == [k |-> "raised", message |-> message]

HeaderLine ==
    TableLine(FALSE, <<WordCell("Package"), WordCell("Function"), WordCell("Expression Width"),
                  WordCell("ACIR Opcodes"), WordCell("Brillig Opcodes")>>)
MainLine(acir, brillig) ==
    TableLine(TRUE, <<WordCell("bench"), WordCell("main"), WordCell("Bounded { width: 4 }")>>
               \o acir \o brillig)

\* The outputs `nargo info` gives in the model: counts of 100, 120, 0 and 129
\* ACIR opcodes, with or without a Brillig count, and a row without counts
InfoOutputs ==
    { <<HeaderLine, MainLine(<<IntCell(100)>>, <<IntCell(5)>>)>>,
      <<HeaderLine, MainLine(<<IntCell(120)>>, <<WordCell("N/A")>>)>>,
      <<HeaderLine, MainLine(<<IntCell(0)>>, <<>>)>>,
      <<HeaderLine, MainLine(<<IntCell(129)>>, <<IntCell(5)>>)>>,
      <<HeaderLine, MainLine(<<WordCell("N/A")>>, <<IntCell(5)>>)>> }

\* int(s) of a cell that is not 'N/A': the key is set when int() accepts the
\* cell and omitted when it raises ValueError
ParsedCount(cell) ==
    IF cell.lex = "int" THEN {cell.n} ELSE {}

\* The keys one '| main' line sets; a line with fewer than four cells sets none
LineInfo(line) ==
    IF line.main /\ Len(line.parts) >= 4
    THEN [acir |-> ParsedCount(line.parts[4]),
          brillig |-> IF Len(line.parts) > 4 THEN ParsedCount(line.parts[5]) ELSE {}]
    ELSE [acir |-> {}, brillig |-> {}]

\* info after the lines 1..n of the output: a later line overwrites a key it sets
RECURSIVE ParsedInfo(_, _)
ParsedInfo(lines, n) ==
    IF n = 0 THEN [acir |-> {}, brillig |-> {}]
    ELSE LET before == ParsedInfo(lines, n - 1)
             here == LineInfo(lines[n])
         IN [acir |-> IF here.acir # {} THEN here.acir ELSE before.acir,
             brillig |-> IF here.brillig # {} THEN here.brillig ELSE before.brillig]

\* run_nargo_info, given the completed `nargo info`
run_nargo_info(result) ==
    IF result.returncode # 0
    THEN Info({result.stderr}, {}, {}, {})
    ELSE LET info == ParsedInfo(result.stdout, Len(result.stdout))
         IN Info({}, {}, info.acir, info.brillig)

\* an entry that reports counts for a compilation that failed
CountsAnyway(result) == Info({result.stderr}, {result.stdout}, {0}, {0})

\* run_nargo_compile_and_info when `nargo compile` did not exit with 0
CompileFailed(result) == Info({result.stderr}, {result.stdout}, {}, {})

\* results["benchmarks"][name] = info
SetEntry(benchmarks, name, info) ==
    [n \in DOMAIN benchmarks \cup {name} |-> IF n = name THEN info ELSE benchmarks[n]]

\* the except clause of the loop: results["benchmarks"][name] = {"error": str(e)}
EntryDropped(benchmarks, name, message) == benchmarks
ErrorEntry(benchmarks, name, message) ==
    SetEntry(benchmarks, name, Info({message}, {}, {}, {}))

EmptyDict == [n \in {} |-> None]

\* The record of one run
RunRecord(timestamp, git_commit, benchmarks) ==
    [timestamp |-> timestamp, git_commit |-> git_commit, benchmarks |-> benchmarks]

\* The history file.  "array" and "object" are valid JSON, holding a list of
\* records or a single record; "invalid" is text json.load rejects with
\* JSONDecodeError; "undecodable" holds bytes that are not UTF-8, so that
\* reading raises UnicodeDecodeError; "unreadable" holds an array but cannot
\* be opened for reading (IOError), only for writing.
Missing == [k |-> "missing", records |-> <<>>]
Array(records) == [k |-> "array", records |-> records]
Object(record) == [k |-> "object", records |-> <<record>>]
Invalid == [k |-> "invalid", records |-> <<>>]
Undecodable == [k |-> "undecodable", records |-> <<>>]
Unreadable(records) == [k |-> "unreadable", records |-> records]

\* Records of earlier runs: one of an operation since removed from the catalog
EarlierRecord ==
    RunRecord(-1, "unknown",
            [n \in {"fn_not", "numeric_add_int"} |->
                IF n = "fn_not" THEN Info({}, {}, {7}, {})
                ELSE Info({}, {}, {100}, {5})])
\* a record with counts whose change to 129 lies halfway between two tenths
\* of a percent: +61.25 and -93.55
HalfwayRecord ==
    RunRecord(-1, "unknown",
            [n \in {"numeric_add_int", "numeric_subtract_int"} |->
                IF n = "numeric_add_int" THEN Info({}, {}, {80}, {5})
                ELSE Info({}, {}, {2000}, {})])
OldestRecord ==
    RunRecord(-2, "0a1b2c3d",
            [n \in {"numeric_add_int"} |-> Info({"error: linking failed"}, {""}, {}, {})])

Histories ==
    { Missing, Array(<<>>), Array(<<EarlierRecord>>), Array(<<OldestRecord, EarlierRecord>>),
      Array(<<HalfwayRecord>>), Object(EarlierRecord), Invalid, Undecodable,
      Unreadable(<<EarlierRecord>>) }

\* existing_results after the try block that loads the file, or Raises when
\* an exception leaves the block: the handler names JSONDecodeError and IOError
Loaded(records) == [k |-> "loaded", records |-> records]
LoadedNothing(file) == Loaded(<<>>)
existing_results(file) ==
    CASE file.k = "missing" -> Loaded(<<>>)
      [] file.k = "array" -> Loaded(file.records)
      [] file.k = "object" -> Loaded(file.records)
      [] file.k = "invalid" -> Loaded(<<>>)
      [] file.k = "unreadable" -> Loaded(<<>>)
      [] file.k = "undecodable" -> Raises

\* The arithmetic of pct, for counts below 2^30.  A bit string is a sequence
\* of 0 and 1, most significant first; a positive double is m * 2^e for a
\* bit string m of at most 53 bits (or 1 followed by 53 zeros).

\* the j-th bit from the right, 0 beyond the string
BitAt(bs, j) == IF j >= 1 /\ j <= Len(bs) THEN bs[Len(bs) + 1 - j] ELSE 0

\* the bits of 0 <= n < 2^31
NatBits(n) == [k \in 1..BitLen(n) |-> (n \div (2 ^ (BitLen(n) - k))) % 2]

\* the number a string of at most 30 bits denotes
RECURSIVE BitsNat(_)
BitsNat(bs) ==
    IF bs = <<>> THEN 0 ELSE 2 * BitsNat(SubSeq(bs, 1, Len(bs) - 1)) + bs[Len(bs)]

\* the string without its leading zeros
StripBits(bs) ==
    LET ones == {k \in 1..Len(bs) : bs[k] = 1}
    IN IF ones = {} THEN <<>>
       ELSE SubSeq(bs, CHOOSE k \in ones : \A j \in ones : k <= j, Len(bs))

\* bs + 1
BitsSucc(bs) ==
    LET zeros == {k \in 1..Len(bs) : bs[k] = 0}
    IN IF zeros = {} THEN <<1>> \o [k \in 1..Len(bs) |-> 0]
       ELSE LET last == CHOOSE k \in zeros : \A j \in zeros : j <= k
            IN [k \in 1..Len(bs) |-> IF k < last THEN bs[k] ELSE IF k = last THEN 1 ELSE 0]

\* bs without its last drop bits, 1 <= drop <= Len(bs), rounded to the
\* nearest and from halfway to even; sticky: the value goes on after bs
RoundBits(bs, sticky, drop) ==
    Only({IF /\ bs[Len(bs) - drop + 1] = 1
             /\ \/ sticky
                \/ \E k \in (Len(bs) - drop + 2)..Len(bs) : bs[k] = 1
                \/ BitAt(keep, 1) = 1
          THEN BitsSucc(keep) ELSE keep :
            keep \in {SubSeq(bs, 1, Len(bs) - drop)}})

\* the double nearest to bs * 2^e (and what goes on after bs, if sticky)
NearestBinary(bs, sticky, e) ==
    Only({IF Len(s) <= 53 THEN Binary(s, e)
          ELSE Binary(RoundBits(s, sticky, Len(s) - 53), e + Len(s) - 53) :
            s \in {StripBits(bs)}})

\* the first n bits of r / d after the binary point, for 0 <= r < d < 2^30,
\* and the remainder they leave
RECURSIVE Expansion(_, _, _)
Expansion(r, d, n) ==
    IF n = 0 THEN [bits |-> <<>>, r |-> r]
    ELSE IF n = 1
    THEN [bits |-> <<(IF 2 * r >= d THEN 1 ELSE 0)>>,
          r |-> IF 2 * r >= d THEN 2 * r - d ELSE 2 * r]
    ELSE Only({Only({[bits |-> first.bits \o rest.bits, r |-> rest.r] :
                       rest \in {Expansion(first.r, d, n - n \div 2)}}) :
                 first \in {Expansion(r, d, n \div 2)}})

\* a / b of two ints, 0 < a < 2^30 and 0 < b < 2^30: the nearest double.  The
\* first bit that is 1 comes within 30 bits after the point, so 85 bits after
\* the point hold 54 bits and more of the quotient.
TrueDivide(a, b) ==
    Only({NearestBinary(NatBits(a \div b) \o x.bits, x.r # 0, -85) :
            x \in {Expansion(a % b, b, 85)}})

\* the i-th group of 15 bits of a bit string from the right, from i = 0
Limb(bs, i) == BitsNat([t \in 1..15 |-> BitAt(bs, 15 * i + 16 - t)])

\* the carry into group i of bs * k
RECURSIVE CarryInto(_, _, _)
CarryInto(bs, k, i) ==
    IF i = 0 THEN 0 ELSE (Limb(bs, i - 1) * k + CarryInto(bs, k, i - 1)) \div 32768

\* bs * k for 0 < k < 2^15
MulBits(bs, k) ==
    Only({StripBits([q \in 1..(15 * Len(out)) |->
                (out[((15 * Len(out) - q) \div 15) + 1] \div (2 ^ ((15 * Len(out) - q) % 15))) % 2]) :
            out \in {[i \in 1..((Len(bs) + 14) \div 15 + 1) |->
                        (Limb(bs, i - 1) * k + CarryInto(bs, k, i - 1)) % 32768]}})

\* f * k for a double f > 0 and an int 0 < k < 2^15: the nearest double
TimesInt(f, k) == NearestBinary(MulBits(f.m, k), FALSE, f.e)

\* the digits '.1f' prints for a double f > 0, without the point: f * 10
\* rounded to the nearest integer and from halfway to the even one
TenthsBits(f) ==
    Only({IF f.e >= 0 THEN x \o [j \in 1..f.e |-> 0]
          ELSE StripBits(RoundBits([j \in 1..(-f.e) |-> 0] \o x, FALSE, -f.e)) :
            x \in {MulBits(f.m, 10)}})

\* a bit string of at most 50 bits as a magnitude
BitsMag(bs) ==
    IF Len(bs) <= 20 THEN NatDigits(BitsNat(bs))
    ELSE MagAdd(MagMulPow2(NatDigits(BitsNat(SubSeq(bs, 1, Len(bs) - 20))), 20),
                NatDigits(BitsNat(SubSeq(bs, Len(bs) - 19, Len(bs)))))

\* f"{pct:+.1f}": the sign, and the digits without the point as a magnitude
\* ('+20.0' is FALSE and 200, '-0.0' is TRUE and 0)
Printed(neg, tenths) == [neg |-> neg, tenths |-> tenths]

\* pct = (diff / old_acir * 100) if old_acir > 0 else 0, as '+.1f' prints
\* it: the int 0 and the float 0.0 are printed '+0.0'
Pct(diff, old_acir) ==
    IF old_acir <= 0 \/ diff = 0 THEN Printed(FALSE, <<0>>)
    ELSE Printed(diff < 0,
                 BitsMag(TenthsBits(TimesInt(TrueDivide(IF diff < 0 THEN -diff ELSE diff,
                                                        old_acir), 100))))

\* The text of the Change column: 'N/A', or f"{diff:+d} ({pct:+.1f}%)"
NotAvailable == [k |-> "N/A", diff |-> 0, pct |-> Printed(FALSE, <<0>>)]
Change(diff, pct) == [k |-> "change", diff |-> diff, pct |-> pct]

\* old_info.get("acir_opcodes", "N/A") of a dict that may lack the operation
AcirOf(benchmarks, name) ==
    IF name \in DOMAIN benchmarks THEN benchmarks[name].acir_opcodes ELSE {}

\* The operations whose count is an integer in both runs
Comparable(old_benchmarks, new_benchmarks) ==
    { n \in DOMAIN old_benchmarks \cup DOMAIN new_benchmarks :
        AcirOf(old_benchmarks, n) # {} /\ AcirOf(new_benchmarks, n) # {} }

TheOne(S) == CHOOSE x \in S : TRUE

RECURSIVE SumOver(_, _)
SumOver(benchmarks, names) ==
    IF names = {} THEN 0
    ELSE LET n == CHOOSE x \in names : TRUE
         IN TheOne(benchmarks[n].acir_opcodes) + SumOver(benchmarks, names \ {n})

\* One row of the table print_comparison prints
Row(old_acir, new_acir) ==
    [old |-> old_acir, new |-> new_acir,
     change |-> IF old_acir # {} /\ new_acir # {}
                THEN Change(TheOne(new_acir) - TheOne(old_acir),
                            Pct(TheOne(new_acir) - TheOne(old_acir), TheOne(old_acir)))
                ELSE NotAvailable]

\* The TOTAL line: printed when both sums are positive
TotalLineAlways(total_old, total_new) ==
    {[old |-> total_old, new |-> total_new,
      change |-> Change(total_new - total_old, Pct(total_new - total_old, total_old))]}
TotalLine(total_old, total_new) ==
    IF total_old > 0 /\ total_new > 0
    THEN {[old |-> total_old, new |-> total_new,
           change |-> Change(total_new - total_old, Pct(total_new - total_old, total_old))]}
    ELSE {}

\* What print_comparison prints: a row for each operation of either run, and
\* the TOTAL line if any
print_comparison(old_results, new_results) ==
    LET old_benchmarks == old_results.benchmarks
        new_benchmarks == new_results.benchmarks
        both == Comparable(old_benchmarks, new_benchmarks)
    IN [k |-> "comparison",
        rows |-> [n \in DOMAIN old_benchmarks \cup DOMAIN new_benchmarks |->
                    Row(AcirOf(old_benchmarks, n), AcirOf(new_benchmarks, n))],
        total |-> TotalLine(SumOver(old_benchmarks, both), SumOver(new_benchmarks, both))]

\* the sum of the counts that are integers
RECURSIVE SumCounts(_, _)
SumCounts(counts, names) ==
    IF names = {} THEN 0
    ELSE LET n == CHOOSE x \in names : TRUE
         IN (IF counts[n] = {} THEN 0 ELSE TheOne(counts[n])) + SumCounts(counts, names \ {n})

\* What print_summary prints: a row for each operation of the record with
\* its counts ('N/A' for a count the entry lacks), and the TOTAL line
print_summary(results_) ==
    LET benchmarks == results_.benchmarks
    IN [k |-> "summary",
        rows |-> [n \in DOMAIN benchmarks |->
                    [acir |-> benchmarks[n].acir_opcodes,
                     brillig |-> benchmarks[n].brillig_opcodes]],
        total_acir |-> SumCounts([n \in DOMAIN benchmarks |-> benchmarks[n].acir_opcodes],
                                 DOMAIN benchmarks),
        total_brillig |-> SumCounts([n \in DOMAIN benchmarks |-> benchmarks[n].brillig_opcodes],
                                    DOMAIN benchmarks)]

\* get_git_commit: the first eight characters of HEAD, or "unknown"
GitCommits == {"0a1b2c3d", "unknown"}

\* open() and json.load() in main, which handles none of their exceptions:
\* the data, or Raises (FileNotFoundError, PermissionError, JSONDecodeError,
\* UnicodeDecodeError)
json_load(file) ==
    CASE file.k = "array" -> [k |-> "list", records |-> file.records]
      [] file.k = "object" -> [k |-> "dict", records |-> file.records]
      [] OTHER -> Raises

\* main is called: the history file is as an earlier call left it
BenchInit ==
    /\ bpc = "main"
    /\ gate_counts \in Histories
    /\ results = None
    /\ index = 0
    /\ proc_result = None
    /\ printed = None
    /\ run = 1
    /\ PackageIdle
    /\ MainIdle

\* main with --summary: the summary of the last record of the history file
MainSummary ==
    /\ bpc = "main"
    /\ IF gate_counts.k = "missing"
       THEN bpc' = "exit" /\ printed' = None
       ELSE \E data \in {json_load(gate_counts)} :
              IF data = Raises
              THEN bpc' = "raised" /\ printed' = None
              ELSE /\ bpc' = "returned"
                   /\ printed' = IF data.k = "list" /\ Len(data.records) > 0
                                 THEN print_summary(data.records[Len(data.records)])
                                 ELSE None
    /\ UNCHANGED <<gate_counts, results, index, proc_result, run>>
    /\ UNCHANGED <<package_vars, main_vars>>

\* main with --compare, given the history file: the comparison of its last
\* two records
MainCompare ==
    /\ bpc = "main"
    /\ \E data \in {json_load(gate_counts)} :
          IF data = Raises
          THEN bpc' = "raised" /\ printed' = None
          ELSE /\ bpc' = "returned"
               /\ printed' = IF data.k = "list" /\ Len(data.records) >= 2
                             THEN print_comparison(data.records[Len(data.records) - 1],
                                                   data.records[Len(data.records)])
                             ELSE None
    /\ UNCHANGED <<gate_counts, results, index, proc_result, run>>
    /\ UNCHANGED <<package_vars, main_vars>>

\* main without --summary and --compare when shutil.which finds no nargo
NargoNotFound ==
    /\ bpc = "main"
    /\ bpc' = "exit"
    /\ UNCHANGED <<gate_counts, results, index, proc_result, printed, run>>
    /\ UNCHANGED <<package_vars, main_vars>>

\* main calls benchmark_all, which starts the record of the run
StartBenchmark ==
    /\ bpc = "main"
    /\ \E git_commit \in GitCommits : results' = RunRecord(run, git_commit, EmptyDict)
    /\ bpc' = "loop"
    /\ UNCHANGED <<gate_counts, index, proc_result, printed, run>>
    /\ UNCHANGED <<package_vars, main_vars>>

\* the loop goes on to the next operation with the entry of this one set
NextOperation(benchmarks, result) ==
    /\ results' = [results EXCEPT !.benchmarks = benchmarks]
    /\ index' = index + 1
    /\ proc_result' = result
    /\ bpc' = "loop"
    /\ UNCHANGED <<gate_counts, printed, run>>

\* create_benchmark_project writes the project, or raises
CreateProject ==
    /\ bpc = "loop"
    /\ index < Len(BENCHMARKS)
    /\ \/ /\ bpc' = "compile"
          /\ proc_result' = None
          /\ UNCHANGED <<gate_counts, results, index, printed, run>>
       \/ \E e \in {Raised("[Errno 28] No space left on device")} :
            NextOperation(ErrorEntry(results.benchmarks, BENCHMARKS[index + 1], e.message), e)
    /\ UNCHANGED <<package_vars, main_vars>>

\* subprocess.run(["nargo", "compile"]) and the test of its return code
Compile ==
    /\ bpc = "compile"
    /\ \E result \in { Raised("[Errno 2] No such file or directory: nargo"),
                       Completed(1, "", "error: cannot find fn_not in this scope"),
                       Completed(0, "", "") } :
         CASE result.k = "raised" ->
                NextOperation(ErrorEntry(results.benchmarks, BENCHMARKS[index + 1],
                                         result.message), result)
           [] result.k = "completed" /\ result.returncode # 0 ->
                NextOperation(SetEntry(results.benchmarks, BENCHMARKS[index + 1],
                                       CompileFailed(result)), result)
           [] OTHER ->
                /\ proc_result' = result
                /\ bpc' = "info"
                /\ UNCHANGED <<gate_counts, results, index, printed, run>>
    /\ UNCHANGED <<package_vars, main_vars>>

\* subprocess.run(["nargo", "info"]) after a compilation that exited with 0,
\* and run_nargo_info on its result; an exception of the call is caught by
\* the except clause of the loop
NargoInfo ==
    /\ bpc = "info"
    /\ \E result \in { Raised("[Errno 12] Cannot allocate memory"),
                       Completed(1, <<>>, "error: failed to read the artifact") }
                     \cup { Completed(0, stdout, "") : stdout \in InfoOutputs } :
         IF result.k = "raised"
         THEN NextOperation(ErrorEntry(results.benchmarks, BENCHMARKS[index + 1],
                                       result.message), result)
         ELSE NextOperation(SetEntry(results.benchmarks, BENCHMARKS[index + 1],
                                     run_nargo_info(result)), result)
    /\ UNCHANGED <<package_vars, main_vars>>

\* the loop over the catalog is done
LoopDone ==
    /\ bpc = "loop"
    /\ index = Len(BENCHMARKS)
    /\ bpc' = "save"
    /\ UNCHANGED <<gate_counts, results, index, proc_result, printed, run>>
    /\ UNCHANGED <<package_vars, main_vars>>

\* json.dump(existing_results, f) into open(output_file, "w"): the file holds
\* the array; a file that cannot be opened for reading stays one
WrittenFile(file, records) ==
    IF file.k = "unreadable" THEN Unreadable(records) ELSE Array(records)

\* Load the history, append the record of this run and write the file.  An
\* exception that leaves the try block ends benchmark_all before the write.
Save ==
    /\ bpc = "save"
    /\ \E existing \in {existing_results(gate_counts)} :
         IF existing = Raises
         THEN /\ bpc' = "failed"
              /\ UNCHANGED gate_counts
         ELSE /\ gate_counts' = WrittenFile(gate_counts, Append(existing.records, results))
              /\ bpc' = IF Len(existing.records) + 1 > 1 THEN "compare" ELSE "done"
    /\ UNCHANGED <<results, index, proc_result, printed, run>>
    /\ UNCHANGED <<package_vars, main_vars>>

\* print_comparison(existing_results[-2], existing_results[-1])
Compare ==
    /\ bpc = "compare"
    /\ printed' = print_comparison(gate_counts.records[Len(gate_counts.records) - 1],
                                   gate_counts.records[Len(gate_counts.records)])
    /\ bpc' = "done"
    /\ UNCHANGED <<gate_counts, results, index, proc_result, run>>
    /\ UNCHANGED <<package_vars, main_vars>>

\* main is called again, on the history file the last call left
NextRun ==
    /\ bpc \in {"done", "failed", "exit", "raised", "returned"}
    /\ run < MaxRuns
    /\ run' = run + 1
    /\ results' = None
    /\ index' = 0
    /\ printed' = None
    /\ proc_result' = None
    /\ bpc' = "main"
    /\ UNCHANGED gate_counts
    /\ UNCHANGED <<package_vars, main_vars>>

BenchNext ==
    \/ MainSummary \/ MainCompare \/ NargoNotFound \/ StartBenchmark
    \/ CreateProject \/ Compile \/ NargoInfo \/ LoopDone \/ Save \/ Compare \/ NextRun

BenchSpec == BenchInit /\ [][BenchNext]_vars

\* ------------------------------------------------------------------------
\* Properties of the benchmark loop
\* ------------------------------------------------------------------------

CatalogNames == { BENCHMARKS[i] : i \in 1..Len(BENCHMARKS) }

\* the call the loop body made last failed: it raised, or exited with a
\* status other than 0
Failed(result) ==
    \/ result.k = "raised"
    \/ result.k = "completed" /\ result.returncode # 0

\* C17: every pass of the loop of benchmark_all sets the entry of its
\* operation and of no other and goes on to the next operation; when a
\* call of the pass failed (project creation, the compiler or the report
\* raised, the compiler or the report exited with a non-zero status) that
\* entry holds
\* the key "error"; so when the loop is over the record of the run has an
\* entry for every operation of the catalog and for nothing else.
C17_ErrorEntryPerOperation ==
    /\ [](bpc \in {"save", "compare", "done", "failed"} =>
             DOMAIN results.benchmarks = CatalogNames)
    /\ [][(bpc \in {"loop", "compile", "info"} /\ index' = index + 1) =>
             /\ bpc' = "loop"
             /\ DOMAIN results'.benchmarks = { BENCHMARKS[i] : i \in 1..index' }
             /\ \A n \in DOMAIN results.benchmarks :
                    results'.benchmarks[n] = results.benchmarks[n]
             /\ Failed(proc_result') => results'.benchmarks[BENCHMARKS[index']].error # {}]_vars

\* the loop is over, the report of the first operation raised and the
\* second operation was measured
C17_Witness ==
    /\ bpc = "save"
    /\ results.benchmarks[BENCHMARKS[1]] = Info({"[Errno 12] Cannot allocate memory"}, {}, {}, {})
    /\ results.benchmarks[BENCHMARKS[2]].acir_opcodes # {}

\* ------------------------------------------------------------------------
\* Properties of the history file
\* ------------------------------------------------------------------------

IsPrefix(s, t) ==
    /\ Len(s) <= Len(t)
    /\ \A i \in 1..Len(s) : t[i] = s[i]

\* the file holds a JSON array, whether or not it can be opened for reading
HoldsArray(file) == file.k \in {"array", "unreadable"}

C15_RecordDropped ==
    /\ bpc = "done"
    /\ run = 2
    /\ gate_counts.k = "unreadable"
    /\ gate_counts.records = <<results>>

\* the file cannot be read or parsed as JSON
BadHistory == gate_counts.k \in {"invalid", "undecodable", "unreadable"}

\* C16: when benchmark_all comes to save its record and the history file
\* cannot be read or does not hold valid JSON, the run does not fail and the
\* file it writes holds the record of this run and no other.
C16_BadHistoryTreatedAsEmpty ==
    [][(bpc = "save" /\ BadHistory) =>
         /\ bpc' # "failed"
         /\ HoldsArray(gate_counts')
         /\ gate_counts'.records = <<results>>]_vars

\* C16, for the files whose reading ends in JSONDecodeError or IOError: the
\* two exceptions the handler names
C16_WhenDecoded ==
    [][(bpc = "save" /\ gate_counts.k \in {"invalid", "unreadable"}) =>
         /\ bpc' # "failed"
         /\ HoldsArray(gate_counts')
         /\ gate_counts'.records = <<results>>]_vars

\* a run has failed on a history file that is not UTF-8 and left it as it was
C16_Failed ==
    /\ bpc = "failed"
    /\ gate_counts = Undecodable

\* ------------------------------------------------------------------------
\* Properties of the comparison table
\* ------------------------------------------------------------------------

\* the two records print_comparison was called with: the last two of the
\* history file, after benchmark_all has saved its record and under --compare
OldRecord == gate_counts.records[Len(gate_counts.records) - 1]
NewRecord == gate_counts.records[Len(gate_counts.records)]
Compared == bpc \in {"done", "returned"} /\ printed # None /\ printed.k = "comparison"

\* the count of an operation in a record: the empty set when the record has
\* no entry for it or the entry has no integer count
CountIn(record, n) ==
    IF n \in DOMAIN record.benchmarks THEN record.benchmarks[n].acir_opcodes ELSE {}
InBoth == { n \in DOMAIN printed.rows : CountIn(OldRecord, n) # {} /\ CountIn(NewRecord, n) # {} }

RECURSIVE Sum(_, _)
Sum(record, names) ==
    IF names = {} THEN 0
    ELSE LET n == CHOOSE x \in names : TRUE
         IN TheOne(CountIn(record, n)) + Sum(record, names \ {n})

Abs(n) == IF n < 0 THEN -n ELSE n

\* p is diff / old * 100 to one decimal place, for old > 0: it has the sign
\* of diff and is a tenth nearest to the quotient, so that its distance
\* from the quotient is at most half a tenth (p.tenths * old and
\* 1000 * |diff| differ by at most old / 2)
NearestTenth(p, diff, old) ==
    /\ p.neg <=> diff < 0
    /\ 2 * Abs(DigitsNat(p.tenths) * old - 1000 * Abs(diff)) <= old

\* C19 as stated: print_comparison prints, for each operation with an
\* integer count in both records, the change new - old and the percentage
\* (new - old) / old * 100 to one decimal, for every other operation N/A,
\* and the totals of the old and of the new counts over the operations with
\* an integer count in both records.
C19_ComparisonReport ==
    Compared =>
        /\ DOMAIN printed.rows = DOMAIN OldRecord.benchmarks \cup DOMAIN NewRecord.benchmarks
        /\ \A n \in InBoth :
              LET old == TheOne(CountIn(OldRecord, n))
                  new == TheOne(CountIn(NewRecord, n))
              IN /\ old # 0
                 /\ printed.rows[n].change.k = "change"
                 /\ printed.rows[n].change.diff = new - old
                 /\ NearestTenth(printed.rows[n].change.pct, new - old, old)
        /\ \A n \in DOMAIN printed.rows \ InBoth : printed.rows[n].change = NotAvailable
        /\ InBoth # {} =>
              /\ printed.total # {}
              /\ \A t \in printed.total :
                    t.old = Sum(OldRecord, InBoth) /\ t.new = Sum(NewRecord, InBoth)

\* C19, with the guards of the code: the percentage is computed in double
\* precision and printed to the nearest tenth; an old count of 0 is
\* reported with a percentage of +0.0; and the totals are printed only when
\* the sum of the old counts and the sum of the new counts are both
\* positive.
C19_ComparisonReportGuarded ==
    Compared =>
        /\ DOMAIN printed.rows = DOMAIN OldRecord.benchmarks \cup DOMAIN NewRecord.benchmarks
        /\ \A n \in InBoth :
              LET old == TheOne(CountIn(OldRecord, n))
                  new == TheOne(CountIn(NewRecord, n))
              IN /\ printed.rows[n].change.k = "change"
                 /\ printed.rows[n].change.diff = new - old
                 /\ IF old > 0 THEN NearestTenth(printed.rows[n].change.pct, new - old, old)
                    ELSE printed.rows[n].change.pct = Printed(FALSE, <<0>>)
        /\ \A n \in DOMAIN printed.rows \ InBoth : printed.rows[n].change = NotAvailable
        /\ (printed.total # {}) <=> (Sum(OldRecord, InBoth) > 0 /\ Sum(NewRecord, InBoth) > 0)
        /\ \A t \in printed.total :
              /\ t.old = Sum(OldRecord, InBoth)
              /\ t.new = Sum(NewRecord, InBoth)
              /\ t.change.k = "change"
              /\ t.change.diff = t.new - t.old
              /\ NearestTenth(t.change.pct, t.new - t.old, t.old)

\* a comparison with percentages that lie halfway between two tenths: 80
\* then 129 is +61.25 percent and printed +49 (+61.3%), 2000 then 129 is
\* -93.55 percent and printed -1871 (-93.5%); the totals are 2080 and 258
C19_Witness ==
    /\ Compared
    /\ printed.rows["numeric_add_int"].old = {80}
    /\ printed.rows["numeric_add_int"].new = {129}
    /\ printed.rows["numeric_add_int"].change = Change(49, Printed(FALSE, <<6,1,3>>))
    /\ printed.rows["numeric_subtract_int"].old = {2000}
    /\ printed.rows["numeric_subtract_int"].new = {129}
    /\ printed.rows["numeric_subtract_int"].change = Change(-1871, Printed(TRUE, <<9,3,5>>))
    /\ printed.total = {[old |-> 2080, new |-> 258,
                         change |-> Change(-1822, Printed(TRUE, <<8,7,6>>))]}

\* a comparison of a count of 0 with a later positive count, printed with a
\* change of +120 (+0.0%) and without totals
C19_ZeroOld ==
    /\ Compared
    /\ printed.total = {}
    /\ \E n \in DOMAIN printed.rows :
          /\ printed.rows[n].old = {0}
          /\ printed.rows[n].new = {120}
          /\ printed.rows[n].change = Change(120, Printed(FALSE, <<0>>))

\* the comparison of the scenario: 100 then 120 is printed as +20 (+20.0%)
\* and counted in the totals
C19_Scenario ==
    /\ Compared
    /\ \E n \in DOMAIN printed.rows :
          /\ printed.rows[n].old = {100}
          /\ printed.rows[n].new = {120}
          /\ printed.rows[n].change = Change(20, Printed(FALSE, <<2,0,0>>))
    /\ \E t \in printed.total : t.old >= 100 /\ t.new >= 120

\* ------------------------------------------------------------------------
\* generate_tests.py: main
\* ------------------------------------------------------------------------

\* FUNCTION_TEST_FILES, for the operations the runs of the model select
FUNCTION_TEST_FILES(func) ==
    CASE func = "op:numeric-add" -> "op/numeric-add.xml"
      [] func = "op:numeric-add-float" -> "op/numeric-add.xml"
      [] func = "fn:not" -> "fn/not.xml"

\* --functions, split at the commas
FunctionLists ==
    { <<"fn:not">>,
      <<"op:numeric-add", "op:numeric-add-float">>,
      <<UnmappedFunction, "op:numeric-add", "fn:not">> }

\* The checkout of the corpus: the test cases of each file it holds
Corpus(files) == [k |-> "checkout", files |-> files]

AddTests ==
    { <<ParsedTest(BinaryOp("+", IntegerLiteral(<<5>>), IntegerLiteral(<<3>>)), Eq8)>>,
      <<ParsedTest(BinaryOp("+", F15, F15), Result(DigitsText("", FALSE, Int128), "assert-eq"))>>,
      <<TestCase(Name2, "", Expr(BinaryOp("+", IntegerLiteral(<<5>>), IntegerLiteral(<<3>>)), TRUE),
                 Eq8.expected_result, "assert-eq", <<Chars("feature:schemaImport")>>)>> }
NotTests ==
    { <<ParsedTest(Prefixed("fn", Call("not", <<TrueCall>>, NoValue)), AssertFalse)>> }

\* the checkouts of the model: both files, or op/numeric-add.xml alone
Checkouts ==
    { Corpus([f \in {"op/numeric-add.xml", "fn/not.xml"} |->
                IF f = "fn/not.xml" THEN n ELSE a]) : a \in AddTests, n \in NotTests }
    \cup { Corpus([f \in {"op/numeric-add.xml"} |-> a]) : a \in AddTests }

\* parse_test_file: no test when the file, or the checkout, is missing
parse_test_file(checkout, xml_path) ==
    IF checkout = None THEN <<>>
    ELSE IF xml_path \notin DOMAIN checkout.files THEN <<>>
    ELSE checkout.files[xml_path]

\* The directory test_packages: None while it does not exist, and else its
\* subdirectories by name
Packages(packages) == [k |-> "packages", packages |-> packages]

\* a subdirectory made by hand: a package, and a directory without Nargo.toml
HandPackage == [prefix |-> "", of |-> "fixtures"]
Scratch == [prefix |-> "", of |-> "scratch"]

\* sorted(): the directory names of the model in the order of their text,
\* "fixtures" < "scratch" < "xpath_test_fnnot" < "xpath_test_opnumeric_add"
\* < "xpath_test_opnumeric_add_float"
DirectoryOrder ==
    <<HandPackage, Scratch, pkg_name("fn:not"), pkg_name("op:numeric-add"),
      pkg_name("op:numeric-add-float")>>

OutputDirs ==
    { None,
      Packages([n \in {} |-> None]),
      Packages([n \in {pkg_name("fn:not"), Scratch} |->
                  IF n = Scratch THEN Dir({}) ELSE EarlierPackage("fn:not")]),
      Packages([n \in {pkg_name("op:numeric-add"), pkg_name("op:numeric-add-float"), HandPackage} |->
                  IF n = HandPackage THEN Dir({File(NargoPath, nargo_toml("fixtures"))})
                  ELSE IF n = pkg_name("op:numeric-add") THEN EarlierPackage("op:numeric-add")
                  ELSE EarlierPackage("op:numeric-add-float")]) }

\* the conversion loop of generate_test_package over the first n tests:
\* the converted tests, or Raises
\* one pass of the loop: r is what generate_noir_test returned
ConvertStep(before, r) ==
    IF before = Raises \/ r = Raises THEN Raises
    ELSE IF r # None /\ r.kind # "skip"
         THEN [k |-> "converted", tests |-> Append(before.tests, r)]
         ELSE before

RECURSIVE ConvertTests(_, _, _)
ConvertTests(function_name_, tests_, n) ==
    IF n = 0 THEN [k |-> "converted", tests |-> <<>>]
    ELSE ConvertStep(ConvertTests(function_name_, tests_, n - 1),
                     generate_noir_test(tests_[n], function_name_))

\* the package directory of an operation under output_dir, None when missing
PackageDir(out, name) ==
    IF out = None THEN None
    ELSE IF name \in DOMAIN out.packages THEN out.packages[name] ELSE None

\* output_dir with the directory of a package written, or removed
WithPackage(out, name, dir) ==
    LET before == IF out = None THEN [n \in {} |-> None] ELSE out.packages
    IN Packages([n \in DOMAIN before \cup {name} |-> IF n = name THEN dir ELSE before[n]])
WithoutPackage(out, name) ==
    IF PackageDir(out, name) = None THEN out
    ELSE Packages([n \in DOMAIN out.packages \ {name} |-> out.packages[n]])

\* generate_test_package(func, tests, output_dir), with the default chunk
\* size: what it returns and leaves in output_dir, or Raises
Returned(count, out) == [k |-> "returned", count |-> count, output_dir |-> out]
PackageOf(c, function_name_, out) ==
    IF c = Raises THEN Raises
    ELSE IF c.tests = <<>> THEN Returned(0, WithoutPackage(out, pkg_name(function_name_)))
    ELSE Returned(Len(c.tests),
                  WithPackage(out, pkg_name(function_name_),
                              WrittenPackage(PackageDir(out, pkg_name(function_name_)),
                                             function_name_, c.tests, DefaultChunkSize)))
generate_test_package(function_name_, tests_, out) ==
    PackageOf(ConvertTests(function_name_, tests_, Len(tests_)), function_name_, out)

\* The workspace manifest Nargo.toml: None while it does not exist, and
\* else the strings of its members array.  A member is the quote it is
\* written in, whether it starts with "test_packages/", and the rest.
Manifest(members) == [k |-> "toml", members |-> members]
Member(quote, prefix, name) == [quote |-> quote, prefix |-> prefix, name |-> name]
HandMember(quote, name) == Member(quote, "", [prefix |-> "", of |-> name])
Generated(name) == Member("\"", "test_packages/", name)

Manifests ==
    { None,
      Manifest(<<HandMember("\"", "xpath")>>),
      Manifest(<<HandMember("\"", "xpath"), Generated(pkg_name("fn:not")),
                 HandMember("\"", "tools")>>),
      Manifest(<<Generated(pkg_name("op:numeric-add")), HandMember("\"", "xpath")>>),
      Manifest(<<HandMember("'", "xpath"), Generated(pkg_name("fn:not"))>>) }

\* re.findall(r'"([^"]+)"', members_str): the members in double quotes
existing_members(man) == SelectSeq(man.members, LAMBDA m : m.quote = "\"")

\* the members that do not start with "test_packages/"
preserved_members(existing) == SelectSeq(existing, LAMBDA m : m.prefix # "test_packages/")

\* the subdirectories of test_packages that hold a Nargo.toml
new_test_packages(out) ==
    { n \in DOMAIN out.packages : \E f \in out.packages[n].files : f.path = NargoPath }

\* sorted(new_test_packages), as members
SortedPackages(names) ==
    LET order == SelectSeq(DirectoryOrder, LAMBDA n : n \in names)
    IN [i \in 1..Len(order) |-> Generated(order[i])]

\* update_workspace_toml(workspace_dir): the manifest it leaves, for man the
\* file Nargo.toml of workspace_dir and out its directory test_packages.  It
\* returns before reading anything when one of the two is missing.
update_workspace_toml(man, out) ==
    IF man = None THEN man
    ELSE IF out = None THEN man
    ELSE Manifest(preserved_members(existing_members(man))
                  \o SortedPackages(new_test_packages(out)))

\* args: --skip-clone, --functions split at the commas, and whether the last
\* part of --output-dir is "test_packages", as it is by default
ParsedArgs(skip_clone, functions, output_dir_name) ==
    [skip_clone |-> skip_clone, functions |-> functions, output_dir_name |-> output_dir_name]

\* the names of --output-dir in the model
OutputDirNames == {"test_packages", "generated"}

\* the keys of FUNCTION_TEST_FILES are the keys of FUNCTION_MAP
HasTestFile(func) == func \in DOMAIN FUNCTION_MAP

\* args.output_dir.parent / "test_packages": args.output_dir itself when that
\* is its name, and else the directory beside it
WorkspacePackages(args, out, beside) ==
    IF args.output_dir_name = "test_packages" THEN out ELSE beside
Totals(identified, generated) == [identified |-> identified, generated |-> generated]

MainInit ==
    /\ mpc = "clone"
    /\ \E skip_clone \in BOOLEAN, functions \in FunctionLists, name \in OutputDirNames :
          /\ parsed_args = ParsedArgs(skip_clone, functions, name)
          /\ test_packages_dir \in (IF name = "test_packages" THEN {None} ELSE OutputDirs)
    /\ git_exit = {}
    /\ qt3_dir \in {None} \cup Checkouts
    /\ output_dir \in OutputDirs
    /\ manifest \in Manifests
    /\ func_i = 0
    /\ totals = Totals(0, 0)
    /\ PackageIdle
    /\ BenchIdle

\* "if not args.skip_clone:" is false
SkipClone ==
    /\ mpc = "clone"
    /\ parsed_args.skip_clone
    /\ mpc' = "functions"
    /\ UNCHANGED <<parsed_args, git_exit, qt3_dir, output_dir, manifest, test_packages_dir,
                   func_i, totals>>
    /\ UNCHANGED <<package_vars, bench_vars>>

\* clone_or_update_qt3tests: "git pull" in the checkout, or "git clone" when
\* there is none, run with check=True: an exit status other than 0 raises
\* CalledProcessError, and a missing git FileNotFoundError, which nothing in
\* main handles.  A clone or pull that succeeds leaves the checkout the
\* remote repository gives.
clone_or_update_qt3tests ==
    /\ mpc = "clone"
    /\ ~parsed_args.skip_clone
    /\ \/ \* FileNotFoundError: no git was run
          /\ git_exit' = {}
          /\ mpc' = "raised"
          /\ UNCHANGED qt3_dir
       \/ \E returncode \in {0, 1, 128} :
             /\ git_exit' = {returncode}
             /\ IF returncode # 0
                THEN /\ mpc' = "raised"
                     /\ UNCHANGED qt3_dir
                ELSE /\ mpc' = "functions"
                     /\ qt3_dir' \in Checkouts
    /\ UNCHANGED <<parsed_args, output_dir, manifest, test_packages_dir, func_i, totals>>
    /\ UNCHANGED <<package_vars, bench_vars>>

\* one pass of "for func in functions:"
ProcessFunction ==
    /\ mpc = "functions"
    /\ func_i < Len(parsed_args.functions)
    /\ \E func \in {parsed_args.functions[func_i + 1]} :
          IF ~HasTestFile(func)
          THEN /\ func_i' = func_i + 1
               /\ UNCHANGED <<mpc, output_dir, totals>>
          ELSE \E tests_ \in {parse_test_file(qt3_dir, FUNCTION_TEST_FILES(func))} :
                 IF tests_ = <<>>
                 THEN /\ func_i' = func_i + 1
                      /\ UNCHANGED <<mpc, output_dir, totals>>
                 ELSE \E r \in {generate_test_package(func, tests_, output_dir)} :
                        IF r = Raises
                        THEN /\ mpc' = "raised"
                             /\ totals' = Totals(totals.identified + Len(tests_),
                                                  totals.generated)
                             /\ UNCHANGED <<func_i, output_dir>>
                        ELSE /\ func_i' = func_i + 1
                             /\ output_dir' = r.output_dir
                             /\ totals' = Totals(totals.identified + Len(tests_),
                                                  totals.generated + r.count)
                             /\ UNCHANGED mpc
    /\ UNCHANGED <<parsed_args, git_exit, qt3_dir, manifest, test_packages_dir>>
    /\ UNCHANGED <<package_vars, bench_vars>>

\* update_workspace_toml(args.output_dir.parent), after the loop
UpdateWorkspace ==
    /\ mpc = "functions"
    /\ func_i = Len(parsed_args.functions)
    /\ manifest' = update_workspace_toml(manifest,
                                         WorkspacePackages(parsed_args, output_dir,
                                                           test_packages_dir))
    /\ mpc' = "done"
    /\ UNCHANGED <<parsed_args, git_exit, qt3_dir, output_dir, test_packages_dir, func_i, totals>>
    /\ UNCHANGED <<package_vars, bench_vars>>

MainNext == SkipClone \/ clone_or_update_qt3tests \/ ProcessFunction \/ UpdateWorkspace

MainSpec == MainInit /\ [][MainNext]_vars

\* ------------------------------------------------------------------------
\* Properties of the test-generation run
\* ------------------------------------------------------------------------

\* the strings of a members array, without their quotes
Paths(members) == [i \in 1..Len(members) |-> [prefix |-> members[i].prefix, name |-> members[i].name]]

\* the members written by hand: those that do not start with "test_packages/"
HandAuthored(members) == SelectSeq(members, LAMBDA m : m.prefix # "test_packages/")

\* the directory test_packages of the workspace
TestPackages == WorkspacePackages(parsed_args, output_dir, test_packages_dir)

\* the directories now under test_packages that hold a Nargo.toml, sorted
CurrentPackages ==
    SelectSeq(DirectoryOrder,
              LAMBDA n : TestPackages # None /\ n \in DOMAIN TestPackages.packages
                         /\ \E f \in TestPackages.packages[n].files : f.path = NargoPath)

\* the step of main that calls update_workspace_toml on an existing manifest
Updates == mpc = "functions" /\ mpc' = "done" /\ manifest # None

\* C13: update_workspace_toml leaves as members every earlier member that
\* does not start with "test_packages/", in the earlier order, followed by
\* the sorted "test_packages/<dir>" of exactly the directories now under
\* test_packages that hold a Nargo.toml.
C13_MembersReconciled ==
    [][Updates =>
         Paths(manifest'.members) =
            Paths(HandAuthored(manifest.members))
            \o [i \in 1..Len(CurrentPackages) |->
                   [prefix |-> "test_packages/", name |-> CurrentPackages[i]]]]_vars

\* C13, when the directory test_packages exists and every member of the
\* manifest is written in double quotes
C13_WhenScanned ==
    [][(Updates /\ TestPackages # None
          /\ \A i \in 1..Len(manifest.members) : manifest.members[i].quote = "\"") =>
         Paths(manifest'.members) =
            Paths(HandAuthored(manifest.members))
            \o [i \in 1..Len(CurrentPackages) |->
                   [prefix |-> "test_packages/", name |-> CurrentPackages[i]]]]_vars

\* a run has ended with test_packages missing and the manifest still naming
\* a package under it
C13_StaleMember ==
    /\ mpc = "done"
    /\ TestPackages = None
    /\ manifest # None
    /\ \E i \in 1..Len(manifest.members) : manifest.members[i].prefix = "test_packages/"

\* C18: when git exits with a status other than 0, the run is not aborted:
\* it goes on to generate the tests of the selected operations (and from
\* there to the update of the manifest).
C18_GitFailureIsLocal ==
    [][(mpc = "clone" /\ git_exit' # {} /\ git_exit' # {0}) => mpc' = "functions"]_vars

\* git has failed and the run has ended there: no function was processed
\* and the manifest was not updated
C18_Aborted ==
    /\ mpc = "raised"
    /\ git_exit \notin {{}, {0}}
    /\ func_i = 0

\* ------------------------------------------------------------------------
\* Properties of the unary operators
\* ------------------------------------------------------------------------

Translated(c) == c # None /\ c # Raises

\* C22: under op:numeric-unary-plus and op:numeric-unary-minus an expression
\* is translated only when its root is the operator with exactly one
\* child; an addition or subtraction of two operands is rejected.
C22_UnaryByArity ==
    (Ran /\ function_name \in {"op:numeric-unary-plus", "op:numeric-unary-minus"}
         /\ Translated(LastConversion)) =>
        /\ LastTest.test_expr.tree.symbol \in {"+", "-"}
        /\ TokLen(LastTest.test_expr.tree) = 1

\* C22, for op:numeric-unary-minus alone, whose handler tests len(token) == 1
C22_UnaryMinusByArity ==
    (Ran /\ function_name = "op:numeric-unary-minus" /\ Translated(LastConversion)) =>
        /\ LastTest.test_expr.tree.symbol = "-"
        /\ TokLen(LastTest.test_expr.tree) = 1

\* the addition 5 + 3 with the declared result 8 has become a test of
\* numeric_unary_plus_int(5)
C22_BinaryAsUnaryPlus ==
    /\ Ran
    /\ function_name = "op:numeric-unary-plus"
    /\ LastTest.test_expr.tree = BinaryOp("+", IntegerLiteral(<<5>>), IntegerLiteral(<<3>>))
    /\ IsTest(noir_test)
    /\ CallOf(noir_test) = [fn |-> "numeric_unary_plus_int", args |-> <<[t |-> "int", v |-> IntOf(5)]>>]

\* ------------------------------------------------------------------------
\* Operands of the integer primitives
\* ------------------------------------------------------------------------

\* a Decimal or float value that is not a whole number
NonIntegral(v) ==
    /\ v # Raises
    /\ \/ v.k = "Decimal" /\ \E i \in 1..Len(v.fp) : v.fp[i] # 0
       \/ v.k = "float" /\ v.cls = "fin" /\ v.e < 0 /\ v.m % Pow2(-v.e) # 0

\* an operand of the expression (an argument of the call, or a child of the
\* operator) evaluates to such a value
HasNonIntegralOperand(tree) ==
    \E i \in 1..Len(_get_function_args(tree)) :
        NonIntegral(_get_function_args(tree)[i].evaluate)

\* C24: under an integer-variant operation an expression with an operand
\* that evaluates to a Decimal or float with a fractional part is not
\* translated.
C24_NoTruncation ==
    (Ran /\ function_name \in IntegerVariantOperations
         /\ HasNonIntegralOperand(LastTest.test_expr.tree)) =>
        ~Translated(LastConversion)

\* C24, for the expressions whose text shows a float: a literal with a
\* fraction or an exponent outside any xs:decimal(..) or xs:integer(..),
\* or the name xs:float or xs:double
C24_WhenTextShowsFloat ==
    (Ran /\ function_name \in IntegerVariantOperations
         /\ HasNonIntegralOperand(LastTest.test_expr.tree)
         /\ detect_operand_type(LastTest.test_expr.text) \in {"float", "double"}) =>
        ~Translated(LastConversion)

\* 5 + xs:decimal(1.5) has become a test of numeric_add_int(5, 1)
C24_Truncated ==
    /\ Ran
    /\ function_name = "op:numeric-add"
    /\ LastTest.test_expr.tree
          = BinaryOp("+", IntegerLiteral(<<5>>), XsDecimal(DecimalLiteral(<<1>>, <<5>>)))
    /\ IsTest(noir_test)
    /\ CallOf(noir_test) = [fn |-> "numeric_add_int",
                            args |-> <<[t |-> "int", v |-> IntOf(5)],
                                       [t |-> "int", v |-> IntOf(1)]>>]

\* ------------------------------------------------------------------------
\* Namespace-qualified calls
\* ------------------------------------------------------------------------

\* the functions translated by a function-call handler
CallHandlerSymbols ==
    {"not", "abs", "ceiling", "floor", "round", "timezone-from-dateTime"}
    \cup DOMAIN xpath_to_noir_dt_funcs \cup DOMAIN xpath_to_noir_dur_funcs

\* the tree is prefix:f(args) for one of these functions
IsQualifiedCall(tree) ==
    /\ tree.symbol = ":"
    /\ TokLen(tree) = 2
    /\ Child(tree, 0).symbol = "(name)"
    /\ Child(tree, 1).symbol \in CallHandlerSymbols

\* the tree is f(args), without a prefix
IsPlainCall(tree) == tree.symbol \in CallHandlerSymbols

\* C25: a qualified call fn:f(args) resolves to the symbol and the
\* arguments of the call f(args), and under every operation
\* convert_xpath_expr gives the two expressions the same translation record.
C25_QualifiedAsPlain ==
    /\ (Ran /\ IsQualifiedCall(LastTest.test_expr.tree)) =>
          LET qualified == LastTest.test_expr.tree
              plain == Child(qualified, 1)
          IN /\ _get_function_name(qualified) = _get_function_name(plain)
             /\ _get_function_args(qualified) = _get_function_args(plain)
             /\ LastConversion = convert_xpath_expr(Expr(plain, LastTest.test_expr.parses),
                                                     function_name)
    /\ (Ran /\ IsPlainCall(LastTest.test_expr.tree)) =>
          LET plain == LastTest.test_expr.tree
              qualified == Prefixed("fn", plain)
          IN /\ _get_function_name(qualified) = _get_function_name(plain)
             /\ _get_function_args(qualified) = _get_function_args(plain)
             /\ LastConversion = convert_xpath_expr(Expr(qualified, LastTest.test_expr.parses),
                                                     function_name)

\* fn:abs(-5) has been translated to abs_int(-5), as abs(-5) is
C25_Witness ==
    /\ Ran
    /\ function_name = "fn:abs"
    /\ LastTest.test_expr.tree = Prefixed("fn", Call("abs", <<UnaryMinus(IntegerLiteral(<<5>>))>>, NoValue))
    /\ Translated(LastConversion)
    /\ LastConversion.call = [fn |-> "abs_int", args |-> <<[t |-> "int", v |-> MkInt(TRUE, <<5>>)]>>]
    /\ LastConversion
          = convert_xpath_expr(Expr(Call("abs", <<UnaryMinus(IntegerLiteral(<<5>>))>>, NoValue), TRUE),
                               function_name)


\* ------------------------------------------------------------------------
\* dateTime plus and minus a dayTimeDuration
\* ------------------------------------------------------------------------

\* the tree is xs:dateTime(..) y xs:dayTimeDuration(..), the dateTime is not
\* before the epoch and the duration fits i64 in microseconds
DateTimeOpDuration(tree, y) ==
    /\ tree.symbol = y
    /\ TokLen(tree) = 2
    /\ _get_function_name(Child(tree, 0)) = "dateTime"
    /\ _get_function_name(Child(tree, 1)) = "dayTimeDuration"
    /\ Child(tree, 0).evaluate # Raises
    /\ Child(tree, 0).evaluate.k = "DateTime10"
    /\ _datetime_to_epoch(Child(tree, 0).evaluate) # None
    /\ ~PreEpoch(_datetime_to_epoch(Child(tree, 0).evaluate).utc_micros)
    /\ DurationOfCtor(Child(tree, 1)) \notin {Raises, None}
    /\ _fits_in_i64(DurationOfCtor(Child(tree, 1)))

\* the setup defining dt and dur and the call noir_func(dt, dur)
DtDurConversion(tree, noir_func) ==
    Conversion(<<DtLet("dt", _datetime_to_epoch(Child(tree, 0).evaluate)),
                 DurLet("dur", DurationOfCtor(Child(tree, 1)))>>,
               noir_func, <<VarArg("dt"), VarArg("dur")>>)

\* C23: under op:subtract-dayTimeDuration-from-dateTime, a dateTime at or
\* after the epoch minus a dayTimeDuration within i64 is converted to the
\* setup defining dt and dur and the call datetime_subtract_duration(dt, dur).
C23_SubtractDuration ==
    (Ran /\ function_name = "op:subtract-dayTimeDuration-from-dateTime"
         /\ DateTimeOpDuration(LastTest.test_expr.tree, "-")) =>
        LastConversion = DtDurConversion(LastTest.test_expr.tree,
                                         "datetime_subtract_duration")

\* the text has a point between two digits
HasFraction(w) ==
    \E i \in 2..(Len(w) - 1) :
        w[i] = "." /\ w[i - 1] \in DigitChars /\ w[i + 1] \in DigitChars

\* C23, the "+" case the claim calls symmetric: under
\* op:add-dayTimeDuration-to-dateTime the same operands give
\* datetime_add_duration(dt, dur), when neither literal has a fraction
\* (a text with a fraction goes to the float operations)
C23_AddDuration ==
    (Ran /\ function_name = "op:add-dayTimeDuration-to-dateTime"
         /\ DateTimeOpDuration(LastTest.test_expr.tree, "+")
         /\ ~HasFraction(LastTest.test_expr.text)) =>
        LastConversion = DtDurConversion(LastTest.test_expr.tree,
                                         "datetime_add_duration")

\* xs:dateTime("2002-04-02T12:00:00Z") - xs:dayTimeDuration("P3DT10H") was
\* run under op:subtract-dayTimeDuration-from-dateTime and was not converted
C23_SubtractionSkipped ==
    /\ Ran
    /\ function_name = "op:subtract-dayTimeDuration-from-dateTime"
    /\ LastTest.test_expr.tree
         = BinaryOp("-", XsDateTime(Y2002), XsDayTimeDuration(P3DT10H))
    /\ ~Translated(LastConversion)


\* ------------------------------------------------------------------------
\* The package generate_test_package leaves
\* ------------------------------------------------------------------------

\* generate_test_package has written a package and returned
Written == pc = "returned" /\ converted_tests # <<>>

\* the content of the file at a path of the package directory
HasFile(path) == \E f \in pkg_dir.files : f.path = path
ContentAt(path) == (CHOOSE f \in pkg_dir.files : f.path = path).content

\* the number of modules src/lib.nr declares: chunk_0 .. chunk_<k-1>
DeclaredModules == ContentAt(LibPath).mods

\* the tests of chunk files 0 .. n - 1, one after the other
RECURSIVE ChunkTests(_)
ChunkTests(n) ==
    IF n = 0 THEN <<>>
    ELSE ChunkTests(n - 1) \o ContentAt(ChunkPath(n - 1)).tests

\* C26: the converted tests are split in order into consecutive chunks:
\* every chunk but the last holds exactly chunk_size tests, the last holds
\* between 1 and chunk_size, chunk_0 .. chunk_{k-1} one after the other are
\* the converted tests, lib.nr declares exactly those k modules, and the
\* returned count is the number of tests written.
C26_Chunks ==
    Written =>
        /\ HasFile(LibPath)
        /\ DeclaredModules >= 1
        /\ \A i \in 0..(DeclaredModules - 1) :
              /\ HasFile(ChunkPath(i))
              /\ ContentAt(ChunkPath(i)).of = function_name
              /\ ContentAt(ChunkPath(i)).contains = Len(ContentAt(ChunkPath(i)).tests)
              /\ i < DeclaredModules - 1 =>
                    Len(ContentAt(ChunkPath(i)).tests) = chunk_size
        /\ Len(ContentAt(ChunkPath(DeclaredModules - 1)).tests) \in 1..chunk_size
        /\ ChunkTests(DeclaredModules) = converted_tests
        /\ returned = Len(ChunkTests(DeclaredModules))

\* three tests were written in chunks of two: a full chunk and a last one
\* with a single test
C26_Witness ==
    /\ Written
    /\ chunk_size = 2
    /\ Len(converted_tests) = 3
    /\ DeclaredModules = 2
    /\ Len(ContentAt(ChunkPath(1)).tests) = 1

\* the files under src/ of the package directory
SrcPaths == {f.path : f \in {g \in pkg_dir.files : g.path # NargoPath}}

\* C29: after generate_test_package has written k chunks, src/ holds
\* exactly lib.nr and chunk_0.nr .. chunk_{k-1}.nr, also when an earlier run
\* wrote more chunks.
C29_NoStaleChunk ==
    Written =>
        SrcPaths = {LibPath} \cup {ChunkPath(i) : i \in 0..(DeclaredModules - 1)}

\* C29, for a run that starts without a package directory
C29_FreshDirectory ==
    [][(pc = "converted" /\ pkg_dir = None /\ pc' = "returned" /\ converted_tests # <<>>) =>
          {f.path : f \in {g \in pkg_dir'.files : g.path # NargoPath}}
             = {LibPath} \cup {ChunkPath(i) : i \in 0..(Len(chunks(converted_tests, chunk_size)) - 1)}]_vars

\* one chunk was written into a directory that held three: chunk_1.nr and
\* chunk_2.nr of the earlier run are still there and lib.nr does not
\* declare them
C29_StaleChunk ==
    /\ Written
    /\ DeclaredModules = 1
    /\ HasFile(ChunkPath(2))
    /\ ContentAt(ChunkPath(2)).tests = <<StaleTest>>

\* C30: within one package the identifiers of the test functions are
\* pairwise distinct when the corpus names of the test cases are.
C30_DistinctIdentifiers ==
    (Written /\ \A i, j \in 1..Len(tests) : i # j => tests[i].name # tests[j].name) =>
        \A i, j \in 1..Len(converted_tests) :
            i # j => converted_tests[i].name # converted_tests[j].name

\* C30, on the names alone: different corpus names have different
\* identifiers
C30_Injective ==
    \A i, j \in 1..Len(tests) :
        tests[i].name # tests[j].name =>
            sanitize_test_name(tests[i].name) # sanitize_test_name(tests[j].name)

\* the tests named a-1 and a.1 were both written as fn a_1
C30_SameIdentifier ==
    /\ Written
    /\ Len(tests) = 2
    /\ tests[1].name = Name1 /\ tests[2].name = Name3
    /\ Len(converted_tests) = 2
    /\ converted_tests[1].name = <<"a", "_", "1">>
    /\ converted_tests[2].name = <<"a", "_", "1">>


\* ------------------------------------------------------------------------
\* The compile step and the report step
\* ------------------------------------------------------------------------

\* the process that just ended exited with the given status
Exited(result, ok) ==
    /\ result # None
    /\ result.k = "completed"
    /\ (result.returncode = 0) = ok

\* C27: for each operation the compile step runs before the report step;
\* nargo info is invoked only after nargo compile exited with 0; after a
\* compile failure the entry of the operation carries the error and no
\* opcode counts.
C27_CompileBeforeInfo ==
    /\ [](bpc = "info" => Exited(proc_result, TRUE))
    /\ [][/\ bpc' = "info" => (bpc = "compile" /\ Exited(proc_result', TRUE))
          /\ bpc' = "compile" => bpc = "loop"
          /\ (bpc = "compile" /\ Exited(proc_result', FALSE)) =>
                /\ bpc' = "loop"
                /\ index' = index + 1
                /\ results'.benchmarks[BENCHMARKS[index']].error = {proc_result'.stderr}
                /\ results'.benchmarks[BENCHMARKS[index']].acir_opcodes = {}
                /\ results'.benchmarks[BENCHMARKS[index']].brillig_opcodes = {}]_vars

\* the compilation of the first operation failed: its entry holds the
\* compiler's error and the loop is at the second operation
C27_Witness ==
    /\ bpc = "loop"
    /\ index = 1
    /\ Exited(proc_result, FALSE)
    /\ proc_result.stderr = "error: cannot find fn_not in this scope"
    /\ results.benchmarks[BENCHMARKS[1]].error = {proc_result.stderr}
    /\ results.benchmarks[BENCHMARKS[1]].acir_opcodes = {}


\* ------------------------------------------------------------------------
\* Earlier output of an operation without converted tests
\* ------------------------------------------------------------------------

\* the operation the next pass of the loop of main is for
Selected == parsed_args.functions[func_i + 1]

\* the test cases main reads for it
SelectedTests == parse_test_file(qt3_dir, FUNCTION_TEST_FILES(Selected))

\* a pass of the loop handles a mapped operation to its end
Processes ==
    /\ mpc = "functions"
    /\ func_i < Len(parsed_args.functions)
    /\ func_i' = func_i + 1
    /\ HasTestFile(Selected)

\* no test of the operation is converted: there is no test case, or
\* generate_noir_test gives a test for none
ZeroConverted ==
    \/ SelectedTests = <<>>
    \/ ConvertTests(Selected, SelectedTests, Len(SelectedTests))
          = [k |-> "converted", tests |-> <<>>]

\* C28: after main has processed a selected operation for which zero tests
\* were converted, the case of a missing corpus file or of a file without
\* a usable test case included, no package directory of the operation
\* remains in the output directory.
C28_NoPackageLeft ==
    [][(Processes /\ ZeroConverted) =>
          PackageDir(output_dir', pkg_name(Selected)) = None]_vars

\* C28, for the operations main found a test case for, which it hands to
\* generate_test_package
C28_WhenTestsFound ==
    [][(Processes /\ ZeroConverted /\ SelectedTests # <<>>) =>
          PackageDir(output_dir', pkg_name(Selected)) = None]_vars

\* fn:not was processed without a test case, nothing was generated, and the
\* package of the earlier run is still in the output directory
C28_PackageLeft ==
    /\ mpc = "functions"
    /\ parsed_args.functions = <<"fn:not">>
    /\ func_i = 1
    /\ parse_test_file(qt3_dir, FUNCTION_TEST_FILES("fn:not")) = <<>>
    /\ totals = Totals(0, 0)
    /\ PackageDir(output_dir, pkg_name("fn:not")) = EarlierPackage("fn:not")


\* ------------------------------------------------------------------------
\* The round trip of a float through its literal
\* ------------------------------------------------------------------------

\* the literal of each pattern
LiteralOf == [p \in BitPatterns |-> encode_text(p)]

\* the last call was made for a test of the 32-bit or 64-bit addition whose
\* declared result is the literal of the value of pattern p, of the width
\* the primitive returns
LastExpectsPattern(p) ==
    /\ Ran
    /\ function_name = (IF p.width = 32 THEN "op:numeric-add-float"
                        ELSE "op:numeric-add-double")
    /\ LastTest.result_type = "assert-eq"
    /\ LastTest.expected_result = LiteralOf[p]
    /\ ~HasUnsupportedDependency(LastTest)
    /\ Translated(LastConversion)

\* the value parse_float gave, encoded in the width of pattern p
ReEncoded(p, parsed) ==
    IF p.width = 32 THEN float_to_bits(parsed.val) ELSE double_to_bits(parsed.val)

\* the assertion generate_noir_test writes for a declared float: equality
\* with zero() for a zero, and else to_bits() compared with the pattern
PatternAssertion(p, bits) ==
    IF p.ex = 0 /\ IsZeroMag(p.fr)
    THEN <<AssertStmt(CallOf(noir_test), "",
                      ConstArg(IF p.width = 32 THEN "XsdFloat::zero()"
                               ELSE "XsdDouble::zero()"))>>
    ELSE <<AssertStmt(CallOf(noir_test), ".to_bits()", IntArg(bits))>>

\* C21 as stated: the literal of an IEEE-754 value v of either width (the
\* zeros, NaN and the infinities included), parsed by parse_float and
\* encoded again by float_to_bits or double_to_bits, gives the bit pattern
\* of v; only the two zeros take the value-equality path and so the same
\* assertion.
C21_RoundTrip ==
    \A p \in BitPatterns :
        LastExpectsPattern(p) =>
            \A parsed \in {parse_float(LastTest.expected_result)} :
                /\ parsed # None
                /\ ReEncoded(p, parsed) = BitsOfPattern(p)
                /\ IsTest(noir_test)
                /\ noir_test.assertions = PatternAssertion(p, BitsOfPattern(p))

\* C21, with NaN apart: the literal of an IEEE-754 value v of either width
\* that is no NaN, parsed by parse_float and encoded again, gives the bit
\* pattern of v (parse_float gives v itself, but for a shortest literal of
\* the 32-bit format, where it gives the double nearest to the literal,
\* which float_to_bits rounds to v); the literal of a NaN of any sign and
\* payload gives the pattern of the quiet NaN with the sign clear; only the
\* two zeros take the value-equality path and so the same assertion.
C21_RoundTripQuietNaN ==
    \A p \in BitPatterns :
        LastExpectsPattern(p) =>
            \A parsed \in {parse_float(LastTest.expected_result)} :
                /\ parsed # None
                /\ \A bits \in {ReEncoded(p, parsed)} :
                      /\ IF IsNaNPattern(p)
                         THEN /\ parsed.val = FloatV("nan", FALSE, 0, 0)
                              /\ bits = BitsOfPattern(QuietNaN(p.width))
                              /\ (bits = BitsOfPattern(p)) <=> (p = QuietNaN(p.width))
                         ELSE /\ (p.width = 64 \/ ~HasShortest(p)) =>
                                      parsed.val = ValueOfPattern(p)
                              /\ bits = BitsOfPattern(p)
                      /\ IsTest(noir_test)
                      /\ noir_test.assertions = PatternAssertion(p, bits)

\* xs:float('-0.1') was declared for the 32-bit addition: the literal is
\* read to the nearest double, which is rounded to the single 0xBDCCCCCD,
\* and the test compares to_bits() with 3184315597
C21_Witness ==
    /\ LastExpectsPattern(BitPattern(32, 1, 123, <<5,0,3,3,1,6,5>>))
    /\ LastTest.expected_result = WordText("xs:float", Chars("-0.1"))
    /\ IsTest(noir_test)
    /\ noir_test.assertions[1].method = ".to_bits()"
    /\ noir_test.assertions[1].rhs = IntArg(MkInt(FALSE, <<3,1,8,4,3,1,5,5,9,7>>))

\* NaN was declared for the 64-bit addition and the test compares to_bits()
\* with 0x7FF8000000000000, the pattern of none of the other NaNs
C21_NaNCollapsed ==
    /\ LastExpectsPattern(BitPattern(64, 1, 2047, MagMulPow2(<<1>>, 51)))
    /\ IsTest(noir_test)
    /\ noir_test.assertions[1].rhs = IntArg(MkInt(FALSE, <<9,2,2,1,1,2,0,2,3,7,0,4,1,0,9,0,5,6,0>>))

============================================================================
